---- MODULE Spec2Model ----
(***************************************************************************)
(* R307 fingerprint voting system (sketch_nov10a.ino).                     *)
(*                                                                         *)
(* The device is single-threaded: loop() dispatches one workflow at a time *)
(* and each workflow runs to completion before the next button is read, so *)
(* each workflow is one action.  Its inputs (the ID selected with UP/DOWN, *)
(* the buttons pressed, the responses the sensor returns) are drawn with   *)
(* \E from small sets.  The persistent store is the EEPROM, a function     *)
(* from addresses to bytes; the sensor's flash library is the set of IDs   *)
(* that have a stored model.                                               *)
(***************************************************************************)
EXTENDS Integers, Sequences, FiniteSets, TLC

(***************************************************************************)
(* Program constants (#define lines of the sketch).                        *)
(***************************************************************************)
EEPROM_VOTE1 == 0
EEPROM_VOTE2 == 1
EEPROM_VOTE3 == 2
EEPROM_VOTED_START == 10

GET_IMAGE == 1
IMAGE_TO_TZ == 2
SEARCH == 4
CREATE_MODEL == 5
STORE_MODEL == 6
DELETE_MODEL == 12
VERIFY_PASSWORD == 19
GET_TEMPLATE_COUNT == 29
HEADER_H == 239
HEADER_L == 1
PACKAGE_ID == 1

\* uint8_t packet[128];
PACKET_SIZE == 128

(***************************************************************************)
(* Bounds of the model.  MAX_FINGERPRINTS is 25 in the sketch (line 73);    *)
(* every loop over the registry is written over 0..MAX_FINGERPRINTS-1 and  *)
(* the selection loops wrap at MAX_FINGERPRINTS, so the model keeps the    *)
(* name and scales the capacity down.  MaxVotes caps the number of votes   *)
(* cast between two tally resets in Spec, MaxRoundVotes in SpecRound,      *)
(* which also keeps the history of who voted in the round, MaxTally in     *)
(* SpecTally, where one candidate's tally runs through the whole byte.     *)
(* MaxDataLen is the longest payload handed to sendCommand, MaxVaried the  *)
(* longest one whose bytes are varied, MaxTimeoutSeconds the largest       *)
(* waitForFinger argument tried besides the two the sketch passes.         *)
(***************************************************************************)
MAX_FINGERPRINTS == 2
MaxVotes == 1
MaxRoundVotes == 2
MaxTally == 256
MaxDataLen == 118
MaxVaried == 2
MaxTimeoutSeconds == 2

Byte == 0..255
EMPTY == 255

IDs == 1..MAX_FINGERPRINTS
SlotIdx == 0..(MAX_FINGERPRINTS - 1)
SlotAddr(i) == EEPROM_VOTED_START + i
Addrs == {EEPROM_VOTE1, EEPROM_VOTE2, EEPROM_VOTE3} \cup {SlotAddr(i) : i \in SlotIdx}

(***************************************************************************)
(* Bit operations of the sketch on the values it uses.                     *)
(*   x | 0x80 : set bit 7;  b & 0x7F : clear bit 7;  (uint8_t) x : low byte *)
(***************************************************************************)
Or80(x) == IF (x \div 128) % 2 = 1 THEN x ELSE x + 128
And7F(b) == b % 128
ToByte(x) == x % 256

Min(S) == CHOOSE x \in S : \A y \in S : x <= y

(***************************************************************************)
(* A sensor response as the callers see it: the number of bytes that       *)
(* readResponse returned and the confirmation code at offset 9.  Fewer     *)
(* than 12 (16 for a search) received bytes are an incomplete response.    *)
(***************************************************************************)
Codes == {0, 1}
Resp == [len : {11, 12}, code : Codes]
SearchResp == [len : {15, 16}, code : Codes]
One == {[len |-> 11, code |-> 1]}
CaptureEnds == {"ok", "timeout", "failed"}

\* deleteByID: if (len >= 12 && response[9] == 0x00)
Confirmed(r) == r.len >= 12 /\ r.code = 0

\* The sensor side of an exchange: the sensor has carried a command out iff
\* it sent the complete acknowledgement with code 0x00; a response cut short
\* stands for an exchange that failed before the sensor acted.
Carried(r) == r.code = 0 /\ r.len >= 12

(***************************************************************************)
(* sendCommand(cmd, data, dataLen).  written is the sequence of values the *)
(* function stores with packet[idx++] = ..., in the order it stores them:  *)
(* the k-th of them goes to packet[k - 1]; idx is the index after the last *)
(* store, the count handed to fingerSerial.write(packet, idx).  checksum   *)
(* is a uint16_t, so the sum is kept modulo 2^16.                          *)
(***************************************************************************)
\* for (int i = 0; i < dataLen; i++) checksum += data[i];
\* The sum of q[a..b], taken by halves to keep the evaluation shallow.
RECURSIVE SumRange(_, _, _)
SumRange(q, a, b) ==
    IF a > b THEN 0
    ELSE IF a = b THEN q[a]
    ELSE LET m == (a + b) \div 2
         IN  SumRange(q, a, m) + SumRange(q, m + 1, b)

SumSeq(q) == SumRange(q, 1, Len(q))

\* Variant: the length is stored low byte first.
sendCommand_LengthLittleEndian(cmd, data) ==
    LET dataLen == Len(data)
        length == dataLen + 3
        checksum == (PACKAGE_ID + ((length \div 256) % 256) + (length % 256)
                     + cmd + SumSeq(data)) % 65536
        written == <<HEADER_H, HEADER_L, 255, 255, 255, 255, PACKAGE_ID,
                     length % 256, (length \div 256) % 256, cmd>>
                   \o data
                   \o <<(checksum \div 256) % 256, checksum % 256>>
    IN  [written |-> written, idx |-> Len(written), checksum |-> checksum]

\* Variant: the checksum starts without PACKAGE_ID.
sendCommand_SumWithoutType(cmd, data) ==
    LET dataLen == Len(data)
        length == dataLen + 3
        checksum == (((length \div 256) % 256) + (length % 256)
                     + cmd + SumSeq(data)) % 65536
        written == <<HEADER_H, HEADER_L, 255, 255, 255, 255, PACKAGE_ID,
                     (length \div 256) % 256, length % 256, cmd>>
                   \o data
                   \o <<(checksum \div 256) % 256, checksum % 256>>
    IN  [written |-> written, idx |-> Len(written), checksum |-> checksum]

\* Variant: the module address is stored as five 0xFF bytes.
sendCommand_LongAddress(cmd, data) ==
    LET dataLen == Len(data)
        length == dataLen + 3
        checksum == (PACKAGE_ID + ((length \div 256) % 256) + (length % 256)
                     + cmd + SumSeq(data)) % 65536
        written == <<HEADER_H, HEADER_L, 255, 255, 255, 255, 255, PACKAGE_ID,
                     (length \div 256) % 256, length % 256, cmd>>
                   \o data
                   \o <<(checksum \div 256) % 256, checksum % 256>>
    IN  [written |-> written, idx |-> Len(written), checksum |-> checksum]

sendCommand(cmd, data) ==
    LET dataLen == Len(data)
        length == dataLen + 3
        checksum == (PACKAGE_ID + ((length \div 256) % 256) + (length % 256)
                     + cmd + SumSeq(data)) % 65536
        written == <<HEADER_H, HEADER_L, 255, 255, 255, 255, PACKAGE_ID,
                     (length \div 256) % 256, length % 256, cmd>>
                   \o data
                   \o <<(checksum \div 256) % 256, checksum % 256>>
    IN  [written |-> written, idx |-> Len(written), checksum |-> checksum]

(***************************************************************************)
(* waitForFinger(timeoutSeconds): one pass of  while (timeout > 0)  with   *)
(* r the response to GET_IMAGE.  0x00 in a complete response returns true; *)
(* 0x02 (no finger), any other code and an incomplete response each cost   *)
(* one unit of timeout.                                                    *)
(***************************************************************************)

\* Variant: the 0x02 branch continues without timeout--.
waitForFingerPass_NoFingerFree(timeout, r) ==
    IF r.len >= 12 /\ r.code = 0 THEN [timeout |-> timeout, returned |-> TRUE]
    ELSE IF r.len >= 12 /\ r.code = 2 THEN [timeout |-> timeout, returned |-> FALSE]
    ELSE [timeout |-> timeout - 1, returned |-> FALSE]

\* Variant: a complete response with any other code ends the wait with
\* false (timeout = 0 leaves the loop and falls to return false).
waitForFingerPass_OtherFatal(timeout, r) ==
    IF r.len >= 12 THEN
        IF r.code = 0 THEN [timeout |-> timeout, returned |-> TRUE]
        ELSE IF r.code = 2 THEN [timeout |-> timeout - 1, returned |-> FALSE]
        ELSE [timeout |-> 0, returned |-> FALSE]
    ELSE [timeout |-> timeout - 1, returned |-> FALSE]

waitForFingerPass(timeout, r) ==
    IF r.len >= 12 THEN
        IF r.code = 0 THEN [timeout |-> timeout, returned |-> TRUE]
        ELSE IF r.code = 2 THEN [timeout |-> timeout - 1, returned |-> FALSE]
        ELSE [timeout |-> timeout - 1, returned |-> FALSE]
    ELSE [timeout |-> timeout - 1, returned |-> FALSE]

(***************************************************************************)
(* The sensor primitives.  Each sends its command, reads the response and  *)
(* returns a bool; r is what readResponse delivered.  When fewer than ten  *)
(* bytes arrived response[9] is whatever the buffer held before, which is  *)
(* r.code in that case; the && and the enclosing if keep it from being     *)
(* read.                                                                   *)
(***************************************************************************)

\* bool verifyPassword(): return (len >= 12 && response[9] == 0x00);
verifyPassword(r) == r.len >= 12 /\ r.code = 0

\* bool checkFinger(): return (len >= 12 && response[9] == 0x00);
checkFinger(r) == r.len >= 12 /\ r.code = 0

\* Variant: the advisory codes 0x06 and 0x07 only print their message and
\* the function goes on as after a success.
imageToTemplate_AdvisoryOk(r) ==
    IF r.len >= 12 THEN r.code \in {0, 6, 7} ELSE FALSE

\* bool imageToTemplate(bufferID): if (len >= 12) { ... messages for the
\* non-zero codes ...; return (confirmCode == 0x00); } return false;
imageToTemplate(r) ==
    IF r.len >= 12 THEN r.code = 0 ELSE FALSE

\* bool createModel(): return (len >= 12 && response[9] == 0x00);
createModel(r) == r.len >= 12 /\ r.code = 0

\* bool storeModel(id): return (len >= 12 && response[9] == 0x00);
storeModel(r) == r.len >= 12 /\ r.code = 0

VARIABLES EEPROM, vote1, vote2, vote3, sensorDb, mode, last, pre, roundVotes,
          roundFlagged, call

device ==
    <<EEPROM, vote1, vote2, vote3, sensorDb, mode, last, pre, roundVotes,
      roundFlagged>>

vars == <<device, call>>

Slot(E, i) == E[SlotAddr(i)]

(***************************************************************************)
(* Registry code: the loops over EEPROM_VOTED_START + i.                   *)
(***************************************************************************)

\* Variant: the break stands outside the if, so only slot 0 is looked at.
AlreadyVoted_FirstSlotOnly(E, matchID) ==
    Slot(E, 0) = Or80(matchID)

\* verifyAndVote, "Check if already voted by looking for ID with high bit set"
AlreadyVoted(E, matchID) ==
    \E i \in SlotIdx : Slot(E, i) = Or80(matchID)

\* markAsVoted: the first slot whose byte equals id gets id | 0x80; break.
\* Variant: the slot is written 0x80 instead of id | 0x80.
markAsVoted_BitOnly(E, id) ==
    LET S == {i \in SlotIdx : Slot(E, i) = id}
    IN  IF S = {} THEN E
        ELSE [E EXCEPT ![SlotAddr(Min(S))] = ToByte(Or80(0))]

markAsVoted(E, id) ==
    LET S == {i \in SlotIdx : Slot(E, i) = id}
    IN  IF S = {} THEN E
        ELSE [E EXCEPT ![SlotAddr(Min(S))] = ToByte(Or80(id))]

\* Variant: the loop runs from the last slot down.
StoreNotVoted_LastEmpty(E, id) ==
    LET S == {i \in SlotIdx : Slot(E, i) = EMPTY}
    IN  IF S = {} THEN E
        ELSE [E EXCEPT ![SlotAddr(CHOOSE x \in S : \A y \in S : x >= y)] = ToByte(id)]

\* enrollFingerprint, "Store this ID as not voted": first 0xFF slot gets id.
StoreNotVoted(E, id) ==
    LET S == {i \in SlotIdx : Slot(E, i) = EMPTY}
    IN  IF S = {} THEN E
        ELSE [E EXCEPT ![SlotAddr(Min(S))] = ToByte(id)]

\* Variant: the test is written  storedVal == id || (id | 0x80), which is
\* true of every slot, so the first slot is cleared whatever it holds.
RemoveFromTracking_AnySlot(E, id) ==
    [E EXCEPT ![SlotAddr(0)] = EMPTY]

\* deleteByID, "Remove from voted tracking": first slot equal to id or
\* id | 0x80 is written 0xFF; break.
RemoveFromTracking(E, id) ==
    LET S == {i \in SlotIdx : Slot(E, i) = id \/ Slot(E, i) = Or80(id)}
    IN  IF S = {} THEN E
        ELSE [E EXCEPT ![SlotAddr(Min(S))] = EMPTY]

\* Variant: the 0xFF test is missing, every slot is rewritten with & 0x7F.
resetVotesOnly_NoEmptyTest(E) ==
    [a \in Addrs |->
        IF a \in {EEPROM_VOTE1, EEPROM_VOTE2, EEPROM_VOTE3} THEN 0
        ELSE And7F(E[a])]

\* resetVotesOnly: the three EEPROM tally bytes are written 0 and every slot
\* that is not 0xFF is rewritten with bit 7 cleared.
resetVotesOnly(E) ==
    [a \in Addrs |->
        IF a \in {EEPROM_VOTE1, EEPROM_VOTE2, EEPROM_VOTE3} THEN 0
        ELSE IF E[a] # EMPTY THEN And7F(E[a]) ELSE E[a]]

\* Variant: the loop stops one slot early (i < MAX_FINGERPRINTS - 1).
resetSystem_OffByOne(E) ==
    [a \in Addrs |->
        IF a \in {EEPROM_VOTE1, EEPROM_VOTE2, EEPROM_VOTE3} THEN 0
        ELSE IF a = SlotAddr(MAX_FINGERPRINTS - 1) THEN E[a] ELSE EMPTY]

\* resetSystem: the three EEPROM tally bytes are written 0, every slot 0xFF.
resetSystem(E) ==
    [a \in Addrs |->
        IF a \in {EEPROM_VOTE1, EEPROM_VOTE2, EEPROM_VOTE3} THEN 0 ELSE EMPTY]

\* setup, "Load votes from EEPROM": if (vote == 0xFF) vote = 0.
LoadVote(b) == IF b = 255 THEN 0 ELSE b

\* Variant: the "Vote Timeout" path flags the voter before it returns.
castVote_TimeoutFlags(E, v, voterID, pressed) ==
    IF 1 \in pressed THEN
        [E |-> markAsVoted([E EXCEPT ![EEPROM_VOTE1] = ToByte(v[1] + 1)], voterID),
         v |-> <<v[1] + 1, v[2], v[3]>>, cand |-> 1, outcome |-> "Recorded"]
    ELSE IF 2 \in pressed THEN
        [E |-> markAsVoted([E EXCEPT ![EEPROM_VOTE2] = ToByte(v[2] + 1)], voterID),
         v |-> <<v[1], v[2] + 1, v[3]>>, cand |-> 2, outcome |-> "Recorded"]
    ELSE IF 3 \in pressed THEN
        [E |-> markAsVoted([E EXCEPT ![EEPROM_VOTE3] = ToByte(v[3] + 1)], voterID),
         v |-> <<v[1], v[2], v[3] + 1>>, cand |-> 3, outcome |-> "Recorded"]
    ELSE
        [E |-> markAsVoted(E, voterID), v |-> v, cand |-> 0,
         outcome |-> "VoteTimeout"]

\* Variant: the three button tests have no return, so every pressed button
\* is counted.
castVote_NoReturn(E, v, voterID, pressed) ==
    IF pressed = {} THEN [E |-> E, v |-> v, cand |-> 0, outcome |-> "VoteTimeout"]
    ELSE LET w == [c \in 1..3 |-> IF c \in pressed THEN v[c] + 1 ELSE v[c]]
             E1 == [a \in Addrs |->
                      IF a = EEPROM_VOTE1 /\ 1 \in pressed THEN ToByte(w[1])
                      ELSE IF a = EEPROM_VOTE2 /\ 2 \in pressed THEN ToByte(w[2])
                      ELSE IF a = EEPROM_VOTE3 /\ 3 \in pressed THEN ToByte(w[3])
                      ELSE E[a]]
         IN  [E |-> markAsVoted(E1, voterID), v |-> <<w[1], w[2], w[3]>>,
              cand |-> Min(pressed), outcome |-> "Recorded"]

(***************************************************************************)
(* castVote(voterID).  pressed is the set of candidate buttons that read   *)
(* LOW in the first pass of the 15 s loop in which any of them does; {} is *)
(* the timeout.  The buttons are tested in the order 1, 2, 3 and the       *)
(* function returns after the first one found pressed.                     *)
(***************************************************************************)
castVote(E, v, voterID, pressed) ==
    IF 1 \in pressed THEN
        [E |-> markAsVoted([E EXCEPT ![EEPROM_VOTE1] = ToByte(v[1] + 1)], voterID),
         v |-> <<v[1] + 1, v[2], v[3]>>, cand |-> 1, outcome |-> "Recorded"]
    ELSE IF 2 \in pressed THEN
        [E |-> markAsVoted([E EXCEPT ![EEPROM_VOTE2] = ToByte(v[2] + 1)], voterID),
         v |-> <<v[1], v[2] + 1, v[3]>>, cand |-> 2, outcome |-> "Recorded"]
    ELSE IF 3 \in pressed THEN
        [E |-> markAsVoted([E EXCEPT ![EEPROM_VOTE3] = ToByte(v[3] + 1)], voterID),
         v |-> <<v[1], v[2], v[3] + 1>>, cand |-> 3, outcome |-> "Recorded"]
    ELSE
        [E |-> E, v |-> v, cand |-> 0, outcome |-> "VoteTimeout"]

\* markAsVoted as the EEPROM.write calls it makes, <<address, value>>.
markAsVotedWrites(E, id) ==
    LET S == {i \in SlotIdx : Slot(E, i) = id}
    IN  IF S = {} THEN <<>>
        ELSE << <<SlotAddr(Min(S)), ToByte(Or80(id))>> >>

\* Variant: markAsVoted(voterID) is called before the tally is written.
castVoteWrites_FlagFirst(E, v, voterID, pressed) ==
    IF 1 \in pressed THEN
        markAsVotedWrites(E, voterID) \o << <<EEPROM_VOTE1, ToByte(v[1] + 1)>> >>
    ELSE IF 2 \in pressed THEN
        markAsVotedWrites(E, voterID) \o << <<EEPROM_VOTE2, ToByte(v[2] + 1)>> >>
    ELSE IF 3 \in pressed THEN
        markAsVotedWrites(E, voterID) \o << <<EEPROM_VOTE3, ToByte(v[3] + 1)>> >>
    ELSE <<>>

\* castVote as the EEPROM.write calls it makes, in program order:
\* EEPROM.write(EEPROM_VOTEn, voteN); markAsVoted(voterID);
castVoteWrites(E, v, voterID, pressed) ==
    IF 1 \in pressed THEN
        << <<EEPROM_VOTE1, ToByte(v[1] + 1)>> >> \o markAsVotedWrites(E, voterID)
    ELSE IF 2 \in pressed THEN
        << <<EEPROM_VOTE2, ToByte(v[2] + 1)>> >> \o markAsVotedWrites(E, voterID)
    ELSE IF 3 \in pressed THEN
        << <<EEPROM_VOTE3, ToByte(v[3] + 1)>> >> \o markAsVotedWrites(E, voterID)
    ELSE <<>>

\* The EEPROM after the first k writes of ws have been carried out.
RECURSIVE Written(_, _, _)
Written(E, ws, k) ==
    IF k = 0 THEN E
    ELSE [Written(E, ws, k - 1) EXCEPT ![ws[k][1]] = ws[k][2]]

\* Variant: castVote is called without the already-voted scan.
verifyAndVote_NoScan(E, v, finger, rTz, rSearch, matchID, pressed) ==
    IF ~finger THEN
        [E |-> E, v |-> v, id |-> 0, cand |-> 0, outcome |-> "Timeout"]
    ELSE IF ~imageToTemplate(rTz) THEN
        [E |-> E, v |-> v, id |-> 0, cand |-> 0, outcome |-> "ScanError"]
    ELSE IF rSearch.len >= 16 /\ rSearch.code = 0 THEN
        LET c == castVote(E, v, matchID, pressed)
        IN  [E |-> c.E, v |-> c.v, id |-> matchID, cand |-> c.cand,
             outcome |-> c.outcome]
    ELSE
        [E |-> E, v |-> v, id |-> 0, cand |-> 0, outcome |-> "NotAuthorized"]

\* Variant: the search response is tested like every other one, len >= 12.
verifyAndVote_ShortMatch(E, v, finger, rTz, rSearch, matchID, pressed) ==
    IF ~finger THEN
        [E |-> E, v |-> v, id |-> 0, cand |-> 0, outcome |-> "Timeout"]
    ELSE IF ~imageToTemplate(rTz) THEN
        [E |-> E, v |-> v, id |-> 0, cand |-> 0, outcome |-> "ScanError"]
    ELSE IF rSearch.len >= 12 /\ rSearch.code = 0 THEN
        IF AlreadyVoted(E, matchID) THEN
            [E |-> E, v |-> v, id |-> matchID, cand |-> 0, outcome |-> "AlreadyVoted"]
        ELSE
            LET c == castVote(E, v, matchID, pressed)
            IN  [E |-> c.E, v |-> c.v, id |-> matchID, cand |-> c.cand,
                 outcome |-> c.outcome]
    ELSE
        [E |-> E, v |-> v, id |-> 0, cand |-> 0, outcome |-> "NotAuthorized"]

(***************************************************************************)
(* verifyAndVote.  finger: waitForFinger(15) returned true; rTz: response  *)
(* to IMAGE_TO_TZ; rSearch: response to SEARCH, matchID the ID in its      *)
(* bytes 10..11; pressed: the candidate buttons (see castVote).            *)
(***************************************************************************)
verifyAndVote(E, v, finger, rTz, rSearch, matchID, pressed) ==
    IF ~finger THEN
        [E |-> E, v |-> v, id |-> 0, cand |-> 0, outcome |-> "Timeout"]
    ELSE IF ~imageToTemplate(rTz) THEN
        [E |-> E, v |-> v, id |-> 0, cand |-> 0, outcome |-> "ScanError"]
    ELSE IF rSearch.len >= 16 /\ rSearch.code = 0 THEN
        IF AlreadyVoted(E, matchID) THEN
            [E |-> E, v |-> v, id |-> matchID, cand |-> 0, outcome |-> "AlreadyVoted"]
        ELSE
            LET c == castVote(E, v, matchID, pressed)
            IN  [E |-> c.E, v |-> c.v, id |-> matchID, cand |-> c.cand,
                 outcome |-> c.outcome]
    ELSE
        [E |-> E, v |-> v, id |-> 0, cand |-> 0, outcome |-> "NotAuthorized"]

(***************************************************************************)
(* enrollFingerprint.  id: the ID on the display when ENROLL is pressed;   *)
(* cancel: DELETE pressed in the selection loop; cap1, cap2: how the two   *)
(* capture phases end ("ok", "timeout" from waitForFinger, "failed" after  *)
(* three extraction failures); removed: checkFinger returned false within  *)
(* 50 probes; rCreate, rStore: responses to CREATE_MODEL and STORE_MODEL.  *)
(* The sensor stores the model iff STORE_MODEL was sent and carried out.   *)
(***************************************************************************)
enrollFingerprint(E, db, id, cancel, cap1, removed, cap2, rCreate, rStore) ==
    IF cancel THEN [E |-> E, db |-> db, outcome |-> "Cancelled"]
    ELSE IF cap1 = "timeout" THEN [E |-> E, db |-> db, outcome |-> "Timeout"]
    ELSE IF cap1 = "failed" THEN [E |-> E, db |-> db, outcome |-> "Failed"]
    ELSE IF ~removed THEN [E |-> E, db |-> db, outcome |-> "RemoveFinger"]
    ELSE IF cap2 = "timeout" THEN [E |-> E, db |-> db, outcome |-> "Timeout"]
    ELSE IF cap2 = "failed" THEN [E |-> E, db |-> db, outcome |-> "Failed"]
    ELSE IF ~createModel(rCreate) THEN [E |-> E, db |-> db, outcome |-> "Mismatch"]
    ELSE LET db2 == IF Carried(rStore) THEN db \cup {id} ELSE db
         IN  IF ~storeModel(rStore)
             THEN [E |-> E, db |-> db2, outcome |-> "StoreFailed"]
             ELSE [E |-> StoreNotVoted(E, id), db |-> db2, outcome |-> "Success"]

\* Variant: only the confirmation code is tested, not the number of bytes.
deleteByID_CodeOnly(E, db, id, cancel, rDel) ==
    IF cancel THEN [E |-> E, db |-> db, outcome |-> "Cancelled"]
    ELSE LET db2 == IF Carried(rDel) THEN db \ {id} ELSE db
         IN  IF rDel.code = 0
             THEN [E |-> RemoveFromTracking(E, id), db |-> db2, outcome |-> "Deleted"]
             ELSE [E |-> E, db |-> db2, outcome |-> "DeleteFailed"]

(***************************************************************************)
(* deleteByID.  id: the ID on the display when DELETE is pressed; cancel:  *)
(* ENROLL pressed in the selection loop; rDel: response to DELETE_MODEL.   *)
(* The sensor removes the model iff it carries DELETE_MODEL out.           *)
(***************************************************************************)
deleteByID(E, db, id, cancel, rDel) ==
    IF cancel THEN [E |-> E, db |-> db, outcome |-> "Cancelled"]
    ELSE LET db2 == IF Carried(rDel) THEN db \ {id} ELSE db
         IN  IF Confirmed(rDel)
             THEN [E |-> RemoveFromTracking(E, id), db |-> db2, outcome |-> "Deleted"]
             ELSE [E |-> E, db |-> db2, outcome |-> "DeleteFailed"]
(***************************************************************************)
(* State.                                                                  *)
(*   EEPROM    the persistent bytes at the addresses the sketch uses       *)
(*   vote1..3  the in-memory tallies (int vote1 = 0, vote2 = 0, vote3 = 0) *)
(*   sensorDb  the IDs that have a model stored in the sensor              *)
(*   mode      "boot": powered, setup() not yet run; "idle": loop() is     *)
(*             polling the buttons under the main menu; "shown": a         *)
(*             workflow has returned and its result is on the display,     *)
(*             showMainMenu() not yet called; "halted": the while(1)       *)
(*             after "Sensor Error!"                                       *)
(*   last      the workflow that ran last and how it ended; id is the ID   *)
(*             carried by a sensor command or response of the run, 0 if    *)
(*             none was; failed is the number of verifyPassword() calls    *)
(*             of setup() that returned false                              *)
(*   pre       history: EEPROM, tallies and sensor library as they were    *)
(*             when the workflow that ran last started; for setup(), as    *)
(*             they were when the power was lost                           *)
(*   roundVotes  history: per matched ID, the votes recorded since the     *)
(*             tallies were last zeroed (kept by the Tracked actions only) *)
(*   roundFlagged  history: the IDs whose voted flag a vote has set since  *)
(*             the tallies were last zeroed (Tracked actions only)         *)
(*   call      the driver function under execution when the driver is      *)
(*             exercised on its own (SpecDriver); NoCall in the device     *)
(*             specifications                                              *)
(***************************************************************************)
NoCall == [fn |-> "none"]

NoVotes == [i \in IDs |-> 0]

Did(op, id, cand, outcome) ==
    [op |-> op, id |-> id, cand |-> cand, outcome |-> outcome, failed |-> 0]

Menu == Did("menu", 0, 0, "none")

Snapshot(E, v1, v2, v3, db) == [E |-> E, v |-> <<v1, v2, v3>>, db |-> db]

Now == Snapshot(EEPROM, vote1, vote2, vote3, sensorDb)

\* A factory-fresh EEPROM reads 0xFF everywhere and the sensor library is
\* empty; the globals are zero-initialised.
Init ==
    /\ EEPROM = [a \in Addrs |-> EMPTY]
    /\ vote1 = 0 /\ vote2 = 0 /\ vote3 = 0
    /\ sensorDb = {}
    /\ mode = "boot"
    /\ last = Menu
    /\ pre = Snapshot([a \in Addrs |-> EMPTY], 0, 0, 0, {})
    /\ roundVotes = NoVotes
    /\ roundFlagged = {}
    /\ call = NoCall

\* setup(), the handshake loop: for (i = 0; i < 6; i++) if (verifyPassword())
\* { sensorOK = true; break; }.  att[k] is the response to attempt k; the
\* attempts after the first confirmed one are not made.
VERIFY_ATTEMPTS == 6

SensorOK(att) == \E k \in 1..VERIFY_ATTEMPTS : verifyPassword(att[k])

Handshakes ==
    {att \in [1..VERIFY_ATTEMPTS -> {[len |-> 12, code |-> 0], [len |-> 0, code |-> 1]}] :
        \A k \in 1..VERIFY_ATTEMPTS :
            (\E j \in 1..(k - 1) : verifyPassword(att[j])) => att[k].len = 0}

\* The attempts made before the first confirmed one, all six if none is.
FailedAttempts(att) ==
    Cardinality({k \in 1..VERIFY_ATTEMPTS :
                    \A j \in 1..k : ~verifyPassword(att[j])})

\* Variant: no while(1) after "Sensor Error!", setup() goes on to the menu.
AfterHandshake_NoHalt(sensorOK) == "shown"

\* setup(): if (!sensorOK) { ... while(1); }  ...  showMainMenu();
AfterHandshake(sensorOK) == IF sensorOK THEN "shown" ELSE "halted"

\* setup() from if (resetRequested) on: resetSystem(), then the tallies are
\* loaded from the EEPROM, then the handshake; while(1) if no attempt is
\* confirmed.  resets: the values resetRequested may have.
SetupRest(track, resets) ==
    /\ mode = "boot"
    /\ \E resetRequested \in resets, att \in Handshakes :
        LET E2 == IF resetRequested THEN resetSystem(EEPROM) ELSE EEPROM
        IN  /\ EEPROM' = E2
            /\ vote1' = LoadVote(E2[EEPROM_VOTE1])
            /\ vote2' = LoadVote(E2[EEPROM_VOTE2])
            /\ vote3' = LoadVote(E2[EEPROM_VOTE3])
            /\ roundVotes' = IF track /\ ~resetRequested THEN roundVotes ELSE NoVotes
            /\ roundFlagged' = IF track /\ ~resetRequested THEN roundFlagged ELSE {}
            /\ mode' = AfterHandshake(SensorOK(att))
            /\ last' = [Did("setup", 0, 0,
                            IF resetRequested THEN "Reset" ELSE "NoReset")
                        EXCEPT !.failed = FailedAttempts(att)]
    /\ UNCHANGED <<sensorDb, pre>>

\* setup(): resetRequested is true iff RESULTS read LOW at all 20 samples.
SetupOp(track) == SetupRest(track, BOOLEAN) /\ UNCHANGED call

\* loop(): showMainMenu() after the workflow has returned.
ShowMainMenu ==
    /\ mode = "shown"
    /\ mode' = "idle"
    /\ last' = Menu
    /\ pre' = Now
    /\ UNCHANGED <<EEPROM, vote1, vote2, vote3, sensorDb, roundVotes, roundFlagged,
                   call>>

\* Power is removed and applied again: the RAM is lost, the EEPROM and the
\* sensor library are kept.
PowerCycle ==
    /\ mode \in {"idle", "halted"}
    /\ mode' = "boot"
    /\ vote1' = 0 /\ vote2' = 0 /\ vote3' = 0
    /\ last' = Menu
    /\ pre' = Now
    /\ UNCHANGED <<EEPROM, sensorDb, roundVotes, roundFlagged, call>>

\* loop(): BTN_ENROLL.  An input the code does not read on the path taken
\* is not drawn (One); sent: the run reaches storeModel(id), the one place
\* where the selected ID leaves the display.
EnrollWith(ids, cancels) ==
    /\ mode = "idle"
    /\ \E cancel \in cancels :
       \E cap1 \in IF cancel THEN {"ok"} ELSE CaptureEnds :
       \E removed \in IF cancel \/ cap1 # "ok" THEN {TRUE} ELSE BOOLEAN :
       \E cap2 \in IF cancel \/ cap1 # "ok" \/ ~removed THEN {"ok"} ELSE CaptureEnds :
       \E rCreate \in IF cancel \/ cap1 # "ok" \/ ~removed \/ cap2 # "ok"
                      THEN One ELSE Resp :
       \E sent \in {~(cancel \/ cap1 # "ok" \/ ~removed \/ cap2 # "ok"
                        \/ ~createModel(rCreate))} :
       \E rStore \in IF sent THEN Resp ELSE One :
       \E id \in IF sent THEN ids ELSE {1} :
        LET r == enrollFingerprint(EEPROM, sensorDb, id, cancel, cap1, removed,
                                   cap2, rCreate, rStore)
        IN  /\ EEPROM' = r.E
            /\ sensorDb' = r.db
            /\ last' = Did("enroll", IF sent THEN id ELSE 0, 0, r.outcome)
    /\ mode' = "shown"
    /\ pre' = Now
    /\ UNCHANGED <<vote1, vote2, vote3, roundVotes, roundFlagged>>

\* The selection loop ends with any of the ids, or is left with DELETE.
EnrollOf(ids) == EnrollWith(ids, BOOLEAN) /\ UNCHANGED call

\* loop(): BTN_DELETE
DeleteWith(ids, cancels) ==
    /\ mode = "idle"
    /\ \E cancel \in cancels :
       \E id \in IF cancel THEN {1} ELSE ids :
       \E rDel \in IF cancel THEN One ELSE Resp :
        LET r == deleteByID(EEPROM, sensorDb, id, cancel, rDel)
        IN  /\ EEPROM' = r.E
            /\ sensorDb' = r.db
            /\ last' = Did("delete", IF cancel THEN 0 ELSE id, 0, r.outcome)
    /\ mode' = "shown"
    /\ pre' = Now
    /\ UNCHANGED <<vote1, vote2, vote3, roundVotes, roundFlagged>>

\* The selection loop ends with any of the ids, or is left with ENROLL.
DeleteOf(ids) == DeleteWith(ids, BOOLEAN) /\ UNCHANGED call

\* loop(): BTN_VOTE.  The sensor answers a search with 0x00 only for an ID
\* that has a model in its library.  cap bounds the votes of a round: once
\* the tallies sum to cap no candidate button is pressed; buttons are the
\* candidate buttons the voters use.
VoteWith(track, cap, buttons) ==
    /\ mode = "idle"
    /\ \E finger \in BOOLEAN :
       \E rTz \in IF finger THEN Resp ELSE One :
       \E matchID \in IF finger /\ imageToTemplate(rTz) THEN sensorDb \cup {0} ELSE {0} :
       \E rSearch \in IF finger /\ imageToTemplate(rTz)
                      THEN {r \in SearchResp : (r.code = 0) <=> (matchID # 0)}
                      ELSE One :
       \E pressed \in IF rSearch.len >= 16 /\ rSearch.code = 0
                         /\ vote1 + vote2 + vote3 < cap
                      THEN SUBSET buttons ELSE {{}} :
        LET r == verifyAndVote(EEPROM, <<vote1, vote2, vote3>>, finger, rTz,
                               rSearch, matchID, pressed)
        IN  /\ EEPROM' = r.E
            /\ vote1' = r.v[1] /\ vote2' = r.v[2] /\ vote3' = r.v[3]
            /\ last' = Did("vote", r.id, r.cand, r.outcome)
            /\ roundVotes' = IF track /\ r.outcome = "Recorded"
                             THEN [roundVotes EXCEPT ![r.id] = @ + 1]
                             ELSE roundVotes
            /\ roundFlagged' = IF track /\ r.outcome = "Recorded"
                                  /\ AlreadyVoted(r.E, r.id)
                               THEN roundFlagged \cup {r.id}
                               ELSE roundFlagged
    /\ mode' = "shown"
    /\ pre' = Now
    /\ UNCHANGED <<sensorDb, call>>

VoteOp(track, cap) == VoteWith(track, cap, {1, 2, 3})

\* loop(): BTN_RESET_VOTES, from if (stillHeld) on.  helds: the values
\* stillHeld may have.
ResetVotesRest(helds) ==
    /\ mode = "idle"
    /\ \E stillHeld \in helds :
        IF stillHeld
        THEN /\ EEPROM' = resetVotesOnly(EEPROM)
             /\ vote1' = 0 /\ vote2' = 0 /\ vote3' = 0
             /\ last' = Did("reset_votes", 0, 0, "Applied")
             /\ roundVotes' = NoVotes
             /\ roundFlagged' = {}
        ELSE /\ UNCHANGED <<EEPROM, vote1, vote2, vote3, roundVotes, roundFlagged>>
             /\ last' = Did("reset_votes", 0, 0, "Cancelled")
    /\ mode' = "shown"
    /\ pre' = Now
    /\ UNCHANGED sensorDb

\* loop(): BTN_RESET_VOTES; stillHeld is true iff the button read LOW at
\* every sample of the 3000 ms hold window.
ResetVotes == ResetVotesRest(BOOLEAN) /\ UNCHANGED call

\* loop(): BTN_VOTE, with the power lost inside castVote after k of its
\* EEPROM writes: the run has matched an ID, found it not voted and seen
\* candidate button c pressed.  The RAM is lost as in PowerCycle.
VoteCut ==
    /\ mode = "idle"
    /\ vote1 + vote2 + vote3 < MaxVotes
    /\ \E matchID \in sensorDb, c \in 1..3 :
        /\ ~AlreadyVoted(EEPROM, matchID)
        /\ LET ws == castVoteWrites(EEPROM, <<vote1, vote2, vote3>>, matchID, {c})
           IN  \E k \in 0..Len(ws) : EEPROM' = Written(EEPROM, ws, k)
        /\ last' = Did("vote", matchID, c, "PowerLost")
    /\ mode' = "boot"
    /\ vote1' = 0 /\ vote2' = 0 /\ vote3' = 0
    /\ pre' = Now
    /\ UNCHANGED <<sensorDb, roundVotes, roundFlagged, call>>

Setup == SetupOp(FALSE)
Enroll == EnrollOf(IDs)
Delete == DeleteOf(IDs)
Vote == VoteOp(FALSE, MaxVotes)

Next == Setup \/ ShowMainMenu \/ PowerCycle \/ Enroll \/ Delete \/ Vote \/ ResetVotes

Spec == Init /\ [][Next]_vars

(***************************************************************************)
(* The same device with the history variable roundVotes kept up to date.  *)
(***************************************************************************)
SetupTracked == SetupOp(TRUE)
VoteTracked == VoteOp(TRUE, MaxRoundVotes)

NextRound ==
    SetupTracked \/ ShowMainMenu \/ PowerCycle \/ Enroll \/ Delete \/ VoteTracked
    \/ ResetVotes

SpecRound == Init /\ [][NextRound]_vars

(***************************************************************************)
(* The same device used with one ID and one candidate button, so that a    *)
(* single tally can be followed over the full range of its EEPROM byte.    *)
(***************************************************************************)
EnrollFirst == EnrollOf({1})
DeleteFirst == DeleteOf({1})
VoteFirst == VoteWith(FALSE, MaxTally, {1})
VoteFirstCapped == VoteWith(FALSE, MaxVotes, {1})

NextTally ==
    Setup \/ ShowMainMenu \/ PowerCycle \/ EnrollFirst \/ DeleteFirst \/ VoteFirst

SpecTally == Init /\ [][NextTally]_vars

(***************************************************************************)
(* The same device with the power also lost in the middle of castVote,     *)
(* between its EEPROM writes.                                              *)
(***************************************************************************)
NextPower == Next \/ VoteCut

SpecPower == Init /\ [][NextPower]_vars

(***************************************************************************)
(* The sensor driver exercised on its own: one driver function at a time   *)
(* is called with arguments and sensor responses drawn from small sets,    *)
(* and call records what it did.  The device state is left alone.          *)
(***************************************************************************)
Commands ==
    {GET_IMAGE, IMAGE_TO_TZ, SEARCH, CREATE_MODEL, STORE_MODEL, DELETE_MODEL,
     VERIFY_PASSWORD, GET_TEMPLATE_COUNT}

DataBytes == {0, 1, 255}

\* The payloads the sketch passes (bufferID; storeModel's data for ID 1;
\* the password; deleteData for ID 1; searchData), every payload of up to
\* MaxVaried bytes over DataBytes, and one payload of each length up to
\* MaxDataLen.
Payloads ==
    {<<1>>, <<2>>, <<1, 0, 1>>, <<0, 0, 0, 0>>, <<0, 1, 0, 1>>, <<1, 0, 0, 0, 127>>}
    \cup UNION {[1..n -> DataBytes] : n \in 0..MaxVaried}
    \cup {[i \in 1..n |-> 255] : n \in 0..MaxDataLen}

\* What fingerSerial.write(packet, idx) puts on the line.  A store past
\* packet[PACKET_SIZE - 1] is outside the array: what is read back from
\* there is not defined, the values stored or anything else (0 here).
Transmitted(f) ==
    IF f.idx <= PACKET_SIZE THEN {f.written}
    ELSE {f.written,
          [k \in 1..f.idx |-> IF k > PACKET_SIZE THEN 0 ELSE f.written[k]]}

CallSendCommand ==
    /\ call = NoCall
    /\ \E cmd \in Commands, data \in Payloads :
        LET f == sendCommand(cmd, data)
        IN  \E sent \in Transmitted(f) :
              call' = [fn |-> "sendCommand", cmd |-> cmd, data |-> data,
                       written |-> f.written, idx |-> f.idx,
                       checksum |-> f.checksum, sent |-> sent]
    /\ UNCHANGED device

\* The responses to GET_IMAGE in waitForFinger: nothing, a response cut
\* short after byte 9, a complete one; success, another code, no finger.
PollResp == [len : {0, 11, 12}, code : {0, 1, 2}]

PollKind(r) ==
    IF r.len < 12 THEN "incomplete"
    ELSE IF r.code = 0 THEN "image"
    ELSE IF r.code = 2 THEN "nofinger"
    ELSE "other"

\* waitForFinger(10) and waitForFinger(15) are the calls of the sketch.
Timeouts == (1..MaxTimeoutSeconds) \cup {10, 15}

\* int timeout = timeoutSeconds * 10;
CallWaitForFinger ==
    /\ call = NoCall
    /\ \E timeoutSeconds \in Timeouts :
        call' = [fn |-> "waitForFinger", timeoutSeconds |-> timeoutSeconds,
                 timeout |-> timeoutSeconds * 10, polls |-> 0, seen |-> {},
                 pressed |-> FALSE, pc |-> "loop", result |-> FALSE]
    /\ UNCHANGED device

\* Variant: a button is read after every poll and, when down, ends the
\* wait with false.
WaitPoll_ButtonCancels ==
    /\ call.fn = "waitForFinger" /\ call.pc = "loop" /\ call.timeout > 0
    /\ \E r \in PollResp, down \in BOOLEAN :
        LET p == waitForFingerPass(call.timeout, r)
        IN  call' = [call EXCEPT !.timeout = p.timeout,
                                 !.polls = @ + 1,
                                 !.seen = @ \cup {PollKind(r)},
                                 !.pressed = @ \/ down,
                                 !.pc = IF p.returned \/ down THEN "done" ELSE "loop",
                                 !.result = p.returned]
    /\ UNCHANGED device

\* while (timeout > 0) { sendCommand(GET_IMAGE, NULL, 0); ... }  down: a
\* button is pressed during this pass; the loop has no digitalRead.
WaitPoll ==
    /\ call.fn = "waitForFinger" /\ call.pc = "loop" /\ call.timeout > 0
    /\ \E r \in PollResp, down \in BOOLEAN :
        LET p == waitForFingerPass(call.timeout, r)
        IN  call' = [call EXCEPT !.timeout = p.timeout,
                                 !.polls = @ + 1,
                                 !.seen = @ \cup {PollKind(r)},
                                 !.pressed = @ \/ down,
                                 !.pc = IF p.returned THEN "done" ELSE "loop",
                                 !.result = p.returned]
    /\ UNCHANGED device

\* return false;
WaitExpire ==
    /\ call.fn = "waitForFinger" /\ call.pc = "loop" /\ ~(call.timeout > 0)
    /\ call' = [call EXCEPT !.pc = "done", !.result = FALSE]
    /\ UNCHANGED device

\* The responses a primitive may read: the number of bytes received and
\* the byte at offset 9 (left from before when fewer than ten arrived).
DriverResp == [len : {0, 9, 11, 12, 32}, code : {0, 1, 2, 6, 7}]

Primitives ==
    {"verifyPassword", "checkFinger", "imageToTemplate", "createModel",
     "storeModel", "deleteModel"}

\* deleteModel: the DELETE_MODEL exchange inside deleteByID, which succeeded
\* iff the workflow went on to "Deleted!".
Succeeds(f, r) ==
    CASE f = "verifyPassword" -> verifyPassword(r)
      [] f = "checkFinger" -> checkFinger(r)
      [] f = "imageToTemplate" -> imageToTemplate(r)
      [] f = "createModel" -> createModel(r)
      [] f = "storeModel" -> storeModel(r)
      [] f = "deleteModel" ->
            deleteByID(EEPROM, sensorDb, 1, FALSE, r).outcome = "Deleted"

CallPrimitive ==
    /\ call = NoCall
    /\ \E f \in Primitives, r \in DriverResp :
        call' = [fn |-> f, resp |-> r, result |-> Succeeds(f, r)]
    /\ UNCHANGED device

DriverReturn ==
    /\ call # NoCall
    /\ call.fn = "waitForFinger" => call.pc = "done"
    /\ call' = NoCall
    /\ UNCHANGED device

NextDriver ==
    CallSendCommand \/ CallWaitForFinger \/ WaitPoll \/ WaitExpire
    \/ CallPrimitive \/ DriverReturn

SpecDriver == Init /\ [][NextDriver]_vars

(***************************************************************************)
(* enrollFingerprint followed statement by statement from the moment the   *)
(* ID is confirmed.  call is its activation record:                        *)
(*   pc        "capture": at the test of a capture loop; "lift": at the    *)
(*             test of while (checkFinger()); "liftDelay": in its          *)
(*             delay(100); "remove": at the test of the removal loop;      *)
(*             "merge", "store": before createModel(), storeModel(id);     *)
(*             "done": returning                                           *)
(*   phase     1 or 2, the capture loop the run is in or has last left     *)
(*   attempts, success, removeAttempts   the locals of that name           *)
(*   extracts, failures   history: imageToTemplate calls of the phase, and *)
(*             those of them that returned false                           *)
(*   present   history: checkFinger calls of the removal loop answered     *)
(*             with a confirmed complete response                          *)
(*   lifted    history: one of them was answered otherwise                 *)
(*   merges, stores   history: the responses to CREATE_MODEL, STORE_MODEL  *)
(***************************************************************************)
CAPTURE_ATTEMPTS == 3
REMOVE_ATTEMPTS == 50

EnrollCall(id) ==
    [fn |-> "enrollFingerprint", pc |-> "capture", id |-> id, phase |-> 1,
     attempts |-> 0, success |-> FALSE, removeAttempts |-> 0,
     extracts |-> 0, failures |-> 0, present |-> 0, lifted |-> FALSE,
     merges |-> <<>>, stores |-> <<>>, outcome |-> "none"]

InEnroll(pc) == call.fn = "enrollFingerprint" /\ call.pc = pc

EnrollEnd(outcome) == [call EXCEPT !.pc = "done", !.outcome = outcome]

\* loop(): BTN_ENROLL; the selection loop ends with BTN_ENROLL (the ID is
\* confirmed) or with BTN_DELETE (return).
EnrollBegin ==
    /\ mode = "idle" /\ call = NoCall
    /\ \E cancel \in BOOLEAN :
       \E id \in IF cancel THEN {1} ELSE IDs :
        call' = IF cancel
                THEN [EnrollCall(id) EXCEPT !.pc = "done", !.outcome = "Cancelled"]
                ELSE EnrollCall(id)
    /\ pre' = Now
    /\ UNCHANGED <<EEPROM, vote1, vote2, vote3, sensorDb, mode, last, roundVotes,
                   roundFlagged>>

\* Variant: the loop test is written attempts <= 3.
CaptureAgain_OffByOne(attempts, success) ==
    attempts <= CAPTURE_ATTEMPTS /\ ~success

\* while (attempts < 3 && !success)
CaptureAgain(attempts, success) ==
    attempts < CAPTURE_ATTEMPTS /\ ~success

\* One pass of a capture loop: waitForFinger, then imageToTemplate.
EnrollCapture ==
    /\ InEnroll("capture") /\ CaptureAgain(call.attempts, call.success)
    /\ \E finger \in BOOLEAN :
       \E r \in IF finger THEN Resp ELSE One :
        call' = IF ~finger THEN EnrollEnd("Timeout")
                ELSE IF imageToTemplate(r)
                THEN [call EXCEPT !.success = TRUE, !.extracts = @ + 1]
                ELSE [call EXCEPT !.attempts = @ + 1, !.extracts = @ + 1,
                                  !.failures = @ + 1, !.pc = "lift"]
    /\ UNCHANGED device

\* After a capture loop: if (!success) { "Failed!"; return; }
EnrollCaptureEnd ==
    /\ InEnroll("capture") /\ ~CaptureAgain(call.attempts, call.success)
    /\ call' = IF ~call.success THEN EnrollEnd("Failed")
               ELSE IF call.phase = 1
               THEN [call EXCEPT !.pc = "remove", !.removeAttempts = 0]
               ELSE [call EXCEPT !.pc = "merge"]
    /\ UNCHANGED device

\* while (checkFinger()) delay(100);  the test
EnrollLiftProbe ==
    /\ InEnroll("lift")
    /\ \E r \in Resp :
        call' = [call EXCEPT !.pc = IF checkFinger(r) THEN "liftDelay" ELSE "capture"]
    /\ UNCHANGED device

\* while (checkFinger()) delay(100);  the body
EnrollLiftDelay ==
    /\ InEnroll("liftDelay")
    /\ call' = [call EXCEPT !.pc = "lift"]
    /\ UNCHANGED device

\* Variant: the test after the removal loop is written removeAttempts > 50.
RemoveWait_NoAbort(removeAttempts, present) ==
    IF present /\ removeAttempts < REMOVE_ATTEMPTS THEN "again"
    ELSE IF removeAttempts > REMOVE_ATTEMPTS THEN "abort"
    ELSE "capture"

\* while (checkFinger() && removeAttempts < 50) { delay(200);
\* removeAttempts++; }  if (removeAttempts >= 50) { ...; return; }
\* present is what the checkFinger() of this pass returned.
RemoveWait(removeAttempts, present) ==
    IF present /\ removeAttempts < REMOVE_ATTEMPTS THEN "again"
    ELSE IF removeAttempts >= REMOVE_ATTEMPTS THEN "abort"
    ELSE "capture"

\* One test of the removal loop, and what follows it when the loop ends.
EnrollRemoveProbe ==
    /\ InEnroll("remove")
    /\ \E r \in Resp :
        LET seen == [call EXCEPT !.present = IF r.len >= 12 /\ r.code = 0
                                             THEN @ + 1 ELSE @,
                                 !.lifted = @ \/ ~(r.len >= 12 /\ r.code = 0)]
            next == RemoveWait(call.removeAttempts, checkFinger(r))
        IN  call' = IF next = "again"
                    THEN [seen EXCEPT !.removeAttempts = @ + 1]
                    ELSE IF next = "abort"
                    THEN [seen EXCEPT !.pc = "done", !.outcome = "RemoveFinger"]
                    ELSE [seen EXCEPT !.pc = "capture", !.phase = 2,
                                      !.attempts = 0, !.success = FALSE,
                                      !.extracts = 0, !.failures = 0]
    /\ UNCHANGED device

\* Variant: the result of createModel() is not tested.
EnrollMerge_NoTest ==
    /\ InEnroll("merge")
    /\ \E r \in Resp : call' = [call EXCEPT !.merges = <<r>>, !.pc = "store"]
    /\ UNCHANGED device

\* if (!createModel()) { "Mismatch!"; return; }
EnrollMerge ==
    /\ InEnroll("merge")
    /\ \E r \in Resp :
        call' = IF createModel(r)
                THEN [call EXCEPT !.merges = <<r>>, !.pc = "store"]
                ELSE [EnrollEnd("Mismatch") EXCEPT !.merges = <<r>>]
    /\ UNCHANGED device

\* if (!storeModel(id)) { "Store failed!"; return; }  then the registry
\* write.  The sensor stores the model iff it carries STORE_MODEL out.
EnrollStore ==
    /\ InEnroll("store")
    /\ \E r \in Resp :
        /\ sensorDb' = IF Carried(r) THEN sensorDb \cup {call.id} ELSE sensorDb
        /\ EEPROM' = IF storeModel(r) THEN StoreNotVoted(EEPROM, call.id) ELSE EEPROM
        /\ call' = [EnrollEnd(IF storeModel(r) THEN "Success" ELSE "StoreFailed")
                    EXCEPT !.stores = <<r>>]
    /\ UNCHANGED <<vote1, vote2, vote3, mode, last, pre, roundVotes, roundFlagged>>

\* return; back in loop(), which goes on to showMainMenu().
EnrollReturn ==
    /\ InEnroll("done")
    /\ call' = NoCall
    /\ mode' = "shown"
    /\ last' = Did("enroll", IF call.stores # <<>> THEN call.id ELSE 0, 0,
                   call.outcome)
    /\ UNCHANGED <<EEPROM, vote1, vote2, vote3, sensorDb, pre, roundVotes,
                   roundFlagged>>

NextEnroll ==
    Setup \/ ShowMainMenu \/ EnrollBegin \/ EnrollCapture \/ EnrollCaptureEnd
    \/ EnrollLiftProbe \/ EnrollLiftDelay \/ EnrollRemoveProbe \/ EnrollMerge
    \/ EnrollStore \/ EnrollReturn

\* The processor never stops executing: some step is always taken while one
\* is possible.
SpecEnroll == Init /\ [][NextEnroll]_vars /\ WF_vars(NextEnroll)

(***************************************************************************)
(* verifyAndVote followed statement by statement.  call is its activation  *)
(* record:                                                                 *)
(*   pc        "wait": in waitForFinger(15), at the test of its loop;      *)
(*             "waited": waitForFinger is returning; "extract": before     *)
(*             imageToTemplate(1); "search": before the SEARCH exchange;   *)
(*             "select": at the test of castVote's loop; "done": returning *)
(*   timeout, polls, found   waitForFinger's local timeout, the GET_IMAGE  *)
(*             polls it has made (history) and the value it returns; they  *)
(*             go when it has returned                                     *)
(*   elapsed   millis() - startTime in castVote; a pass of its loop that   *)
(*             finds no button pressed takes the 50 ms of its delay        *)
(*   matchID   the ID read from the search response                        *)
(*   waits, extracts, searches, windows, reads   history: calls of         *)
(*             waitForFinger, IMAGE_TO_TZ and SEARCH exchanges, calls of   *)
(*             castVote, passes of its loop (each reads the candidate      *)
(*             buttons)                                                    *)
(*   early     history: a candidate button was down at some step before    *)
(*             castVote was called                                         *)
(***************************************************************************)
\* Variant: verifyAndVote calls waitForFinger with one second more.
VOTE_WAIT_SECONDS_Longer == 15 + 1

\* if (!waitForFinger(15))
VOTE_WAIT_SECONDS == 15
VOTE_WINDOW_MS == 15000
VOTE_PASS_MS == 50

VoteCall ==
    [fn |-> "verifyAndVote", pc |-> "wait", timeout |-> VOTE_WAIT_SECONDS * 10,
     polls |-> 0, found |-> FALSE, elapsed |-> 0, matchID |-> 0, waits |-> 1,
     extracts |-> 0, searches |-> 0, windows |-> 0, reads |-> 0,
     early |-> FALSE, cand |-> 0, outcome |-> "none"]

InVote(pc) == call.fn = "verifyAndVote" /\ call.pc = pc

VoteEnd(outcome) == [call EXCEPT !.pc = "done", !.outcome = outcome]

\* loop(): BTN_VOTE
VoteBegin ==
    /\ mode = "idle" /\ call = NoCall
    /\ call' = VoteCall
    /\ pre' = Now
    /\ UNCHANGED <<EEPROM, vote1, vote2, vote3, sensorDb, mode, last, roundVotes,
                   roundFlagged>>

\* if (!waitForFinger(15)): one pass of its loop
VotePoll ==
    /\ InVote("wait") /\ call.timeout > 0
    /\ \E r \in PollResp, down \in BOOLEAN :
        LET p == waitForFingerPass(call.timeout, r)
        IN  call' = [call EXCEPT !.timeout = p.timeout, !.polls = @ + 1,
                                 !.early = @ \/ down, !.found = p.returned,
                                 !.pc = IF p.returned THEN "waited" ELSE "wait"]
    /\ UNCHANGED device

\* waitForFinger: the loop ends, return false;
VoteExpire ==
    /\ InVote("wait") /\ ~(call.timeout > 0)
    /\ call' = [call EXCEPT !.pc = "waited", !.found = FALSE]
    /\ UNCHANGED device

\* if (!waitForFinger(15)) { "Timeout!"; return; }
VoteWaited ==
    /\ InVote("waited")
    /\ call' = [(IF verifyAndVote(EEPROM, <<vote1, vote2, vote3>>, call.found,
                                  [len |-> 11, code |-> 1],
                                  [len |-> 15, code |-> 1], 0, {}).outcome
                        = "Timeout"
                 THEN VoteEnd("Timeout") ELSE [call EXCEPT !.pc = "extract"])
                EXCEPT !.timeout = 0, !.polls = 0, !.found = FALSE]
    /\ UNCHANGED device

\* if (!imageToTemplate(1)) { "Scan Error!"; return; }
VoteExtract ==
    /\ InVote("extract")
    /\ \E r \in Resp, down \in BOOLEAN :
        call' = [(IF verifyAndVote(EEPROM, <<vote1, vote2, vote3>>, TRUE, r,
                                   [len |-> 15, code |-> 1], 0, {}).outcome
                        = "ScanError"
                  THEN VoteEnd("ScanError") ELSE [call EXCEPT !.pc = "search"])
                 EXCEPT !.extracts = @ + 1, !.early = @ \/ down]
    /\ UNCHANGED device

\* The SEARCH exchange, the match test and the already-voted scan; the
\* sensor answers 0x00 only for an ID that has a model in its library.
\* What verifyAndVote does up to the call of castVote is read off
\* verifyAndVote with no button pressed.
VoteSearch ==
    /\ InVote("search")
    /\ \E matchID \in sensorDb \cup {0}, down \in BOOLEAN :
       \E rSearch \in {r \in SearchResp : (r.code = 0) <=> (matchID # 0)} :
        LET o == verifyAndVote(EEPROM, <<vote1, vote2, vote3>>, TRUE,
                               [len |-> 12, code |-> 0], rSearch, matchID, {})
        IN  call' = [(IF o.outcome = "VoteTimeout"
                      THEN [call EXCEPT !.pc = "select", !.elapsed = 0,
                                        !.windows = @ + 1]
                      ELSE VoteEnd(o.outcome))
                     EXCEPT !.searches = @ + 1, !.matchID = o.id,
                            !.early = @ \/ down]
    /\ UNCHANGED device

\* castVote: one pass of while (millis() - startTime < 15000); no candidate
\* button is pressed once the tallies sum to MaxVotes.
VoteSelect ==
    /\ InVote("select") /\ call.elapsed < VOTE_WINDOW_MS
    /\ \E pressed \in IF vote1 + vote2 + vote3 < MaxVotes
                       THEN SUBSET {1, 2, 3} ELSE {{}} :
        LET c == castVote(EEPROM, <<vote1, vote2, vote3>>, call.matchID, pressed)
        IN  IF pressed # {}
            THEN /\ EEPROM' = c.E
                 /\ vote1' = c.v[1] /\ vote2' = c.v[2] /\ vote3' = c.v[3]
                 /\ call' = [VoteEnd(c.outcome) EXCEPT !.cand = c.cand,
                                                       !.reads = @ + 1]
            ELSE /\ call' = [call EXCEPT !.elapsed = @ + VOTE_PASS_MS,
                                         !.reads = @ + 1]
                 /\ UNCHANGED <<EEPROM, vote1, vote2, vote3>>
    /\ UNCHANGED <<sensorDb, mode, last, pre, roundVotes, roundFlagged>>

\* castVote: the loop ends, "Vote Timeout" / "Try again"
VoteWindowEnd ==
    /\ InVote("select") /\ ~(call.elapsed < VOTE_WINDOW_MS)
    /\ LET c == castVote(EEPROM, <<vote1, vote2, vote3>>, call.matchID, {})
       IN  /\ EEPROM' = c.E
           /\ vote1' = c.v[1] /\ vote2' = c.v[2] /\ vote3' = c.v[3]
           /\ call' = VoteEnd(c.outcome)
    /\ UNCHANGED <<sensorDb, mode, last, pre, roundVotes, roundFlagged>>

\* return; back in loop(), which goes on to showMainMenu().
VoteReturn ==
    /\ InVote("done")
    /\ call' = NoCall
    /\ mode' = "shown"
    /\ last' = Did("vote", call.matchID, call.cand, call.outcome)
    /\ UNCHANGED <<EEPROM, vote1, vote2, vote3, sensorDb, pre, roundVotes,
                   roundFlagged>>

\* loop(): BTN_ENROLL is read only between workflows.
EnrollBetween == call = NoCall /\ EnrollFirst

NextVote ==
    Setup \/ ShowMainMenu \/ EnrollBetween \/ VoteBegin \/ VotePoll \/ VoteExpire
    \/ VoteWaited \/ VoteExtract \/ VoteSearch \/ VoteSelect \/ VoteWindowEnd \/ VoteReturn

\* The processor never stops executing: some step is always taken while one
\* is possible.
SpecVote == Init /\ [][NextVote]_vars /\ WF_vars(NextVote)

(***************************************************************************)
(* The two hold-to-confirm loops followed sample by sample.  call is the   *)
(* activation record of the loop:                                          *)
(*   fn        "startupHold": the 20 samples of RESULTS in setup();        *)
(*             "voteHold": the 3000 ms window of RESET_VOTES in loop()     *)
(*   pc        "sample": at the test of the loop; "sampled": the loop is   *)
(*             left; "done": the reset was applied or not                  *)
(*   i, resetRequested / elapsed, stillHeld   the locals of that name      *)
(*             (elapsed is millis() - holdStart; a pass takes the 50 ms of *)
(*             its delay)                                                  *)
(*   lows      history: the samples that read LOW                          *)
(*   released  history: a sample read HIGH                                 *)
(***************************************************************************)
STARTUP_SAMPLES == 20
HOLD_MS == 3000
HOLD_PASS_MS == 50

InHold(fn, pc) == call.fn = fn /\ call.pc = pc

\* setup(): bool resetRequested = true;
StartupBegin ==
    /\ mode = "boot" /\ call = NoCall
    /\ call' = [fn |-> "startupHold", pc |-> "sample", i |-> 0,
                resetRequested |-> TRUE, lows |-> 0, released |-> FALSE]
    /\ UNCHANGED device

\* Variant: the loop is written for (int i = 0; i < 19; i++).
StartupAgain_OneLess(i) == i < STARTUP_SAMPLES - 1

\* for (int i = 0; i < 20; i++)
StartupAgain(i) == i < STARTUP_SAMPLES

\* if (digitalRead(BTN_RESULTS) == HIGH) { resetRequested = false; break; }
\* delay(100);
StartupSample ==
    /\ InHold("startupHold", "sample") /\ StartupAgain(call.i)
    /\ \E high \in BOOLEAN :
        call' = IF high
                THEN [call EXCEPT !.resetRequested = FALSE, !.released = TRUE,
                                  !.pc = "sampled"]
                ELSE [call EXCEPT !.i = @ + 1, !.lows = @ + 1]
    /\ UNCHANGED device

StartupLoopEnd ==
    /\ InHold("startupHold", "sample") /\ ~StartupAgain(call.i)
    /\ call' = [call EXCEPT !.pc = "sampled"]
    /\ UNCHANGED device

\* if (resetRequested) resetSystem();  and the rest of setup()
StartupApply ==
    /\ InHold("startupHold", "sampled")
    /\ SetupRest(FALSE, {call.resetRequested})
    /\ call' = [call EXCEPT !.pc = "done"]

\* loop(): RESET_VOTES read LOW twice, 100 ms apart; bool stillHeld = true;
HoldBegin ==
    /\ mode = "idle" /\ call = NoCall
    /\ call' = [fn |-> "voteHold", pc |-> "sample", elapsed |-> 0,
                stillHeld |-> TRUE, lows |-> 0, released |-> FALSE]
    /\ UNCHANGED device

\* Variant: the window is one pass shorter.
HoldAgain_Short(elapsed) == elapsed < HOLD_MS - HOLD_PASS_MS

\* while (millis() - holdStart < 3000)
HoldAgain(elapsed) == elapsed < HOLD_MS

\* if (digitalRead(BTN_RESET_VOTES) == HIGH) { stillHeld = false; break; }
\* ... delay(50);
HoldSample ==
    /\ InHold("voteHold", "sample") /\ HoldAgain(call.elapsed)
    /\ \E high \in BOOLEAN :
        call' = IF high
                THEN [call EXCEPT !.stillHeld = FALSE, !.released = TRUE,
                                  !.pc = "sampled"]
                ELSE [call EXCEPT !.elapsed = @ + HOLD_PASS_MS, !.lows = @ + 1]
    /\ UNCHANGED device

HoldLoopEnd ==
    /\ InHold("voteHold", "sample") /\ ~HoldAgain(call.elapsed)
    /\ call' = [call EXCEPT !.pc = "sampled"]
    /\ UNCHANGED device

\* if (stillHeld) resetVotesOnly(); else "Cancelled"
HoldApply ==
    /\ InHold("voteHold", "sampled")
    /\ ResetVotesRest({call.stillHeld})
    /\ call' = [call EXCEPT !.pc = "done"]

\* The locals go when the block is left.
HoldReturn ==
    /\ call.fn \in {"startupHold", "voteHold"} /\ call.pc = "done"
    /\ call' = NoCall
    /\ UNCHANGED device

\* The other workflows, between two hold loops.
MenuBetween == call = NoCall /\ ShowMainMenu
PowerBetween == call = NoCall /\ PowerCycle
VoteBetween == call = NoCall /\ Vote

NextHold ==
    StartupBegin \/ StartupSample \/ StartupLoopEnd \/ StartupApply
    \/ HoldBegin \/ HoldSample \/ HoldLoopEnd \/ HoldApply \/ HoldReturn
    \/ MenuBetween \/ PowerBetween \/ EnrollBetween \/ VoteBetween

SpecHold == Init /\ [][NextHold]_vars

(***************************************************************************)
(* The ID selection loops of enrollFingerprint and deleteByID followed     *)
(* pass by pass.  call is the activation record:                           *)
(*   op        "enroll" or "delete": the function the loop belongs to      *)
(*   pc        "loop": in while (true); "chosen": left by break;           *)
(*             "cancelled": left by return; "done": the function returned  *)
(*   id        the local of that name                                      *)
(*   ups, downs   history: a pass wrapped id upwards / downwards           *)
(***************************************************************************)
\* int id = 1;
SelectBegin ==
    /\ mode = "idle" /\ call = NoCall
    /\ \E op \in {"enroll", "delete"} :
        call' = [fn |-> "selectId", op |-> op, pc |-> "loop", id |-> 1,
                 ups |-> FALSE, downs |-> FALSE]
    /\ UNCHANGED device

\* Variant: the upper test is written  id > MAX_FINGERPRINTS + 1.
AfterUp_Late(id) == IF id + 1 > MAX_FINGERPRINTS + 1 THEN 1 ELSE id + 1

\* id++; if (id > MAX_FINGERPRINTS) id = 1;
AfterUp(id) == IF id + 1 > MAX_FINGERPRINTS THEN 1 ELSE id + 1

\* id--; if (id < 1) id = MAX_FINGERPRINTS;
AfterDown(id) == IF id - 1 < 1 THEN MAX_FINGERPRINTS ELSE id - 1

\* One pass of while (true): UP, then DOWN, then the confirming button
\* (break), then the other one (return).
SelectPass ==
    /\ InHold("selectId", "loop")
    /\ \E up, down, confirm, other \in BOOLEAN :
        LET id1 == IF up THEN AfterUp(call.id) ELSE call.id
            id2 == IF down THEN AfterDown(id1) ELSE id1
        IN  call' = [call EXCEPT
                        !.id = id2,
                        !.ups = @ \/ (up /\ id1 < call.id),
                        !.downs = @ \/ (down /\ id2 > id1),
                        !.pc = IF confirm THEN "chosen"
                               ELSE IF other THEN "cancelled" ELSE "loop"]
    /\ UNCHANGED device

\* enrollFingerprint() after its selection loop.
SelectEnroll ==
    /\ call.fn = "selectId" /\ call.op = "enroll"
    /\ call.pc \in {"chosen", "cancelled"}
    /\ EnrollWith({call.id}, {call.pc = "cancelled"})
    /\ call' = [call EXCEPT !.pc = "done"]

\* deleteByID() after its selection loop.
SelectDelete ==
    /\ call.fn = "selectId" /\ call.op = "delete"
    /\ call.pc \in {"chosen", "cancelled"}
    /\ DeleteWith({call.id}, {call.pc = "cancelled"})
    /\ call' = [call EXCEPT !.pc = "done"]

SelectReturn ==
    /\ InHold("selectId", "done")
    /\ call' = NoCall
    /\ UNCHANGED device

SetupBetween == call = NoCall /\ Setup
ResetBetween == call = NoCall /\ ResetVotes

\* The votes between two selections all go to candidate 1: which tally a
\* vote raises has no bearing on the registry.
VoteOneBetween == call = NoCall /\ VoteFirstCapped

NextSelect ==
    SelectBegin \/ SelectPass \/ SelectEnroll \/ SelectDelete \/ SelectReturn
    \/ SetupBetween \/ MenuBetween \/ PowerBetween \/ VoteOneBetween
    \/ ResetBetween

SpecSelect == Init /\ [][NextSelect]_vars

(***************************************************************************)
(* readResponse(buffer, timeout) followed pass by pass, and the reads its  *)
(* caller makes of the buffer.  call is the activation record:             *)
(*   size      the length of the caller's array (response[32], and         *)
(*             response[64] in imageToTemplate)                            *)
(*   timeout   the argument, in ticks of millis()                          *)
(*   elapsed   millis() - startTime                                        *)
(*   idx       the local of that name                                      *)
(*   stream    the bytes the serial port still has to deliver              *)
(*   written   the buffer indices that a received byte was stored at       *)
(*   pc        "loop": at the test of the while; "done": idx was returned; *)
(*             "used": the caller has tested the count and read the buffer *)
(*   result    the count returned                                          *)
(*   reads     the buffer indices the caller read                          *)
(***************************************************************************)
READ_LIMIT == 32
ResponseSizes == {32, 64}

\* The timeouts, in ticks, and the stream lengths drawn.
MaxReadTicks == 2
MaxStream == 34

CallReadResponse ==
    /\ call = NoCall
    /\ \E size \in ResponseSizes, timeout \in 0..MaxReadTicks, stream \in 0..MaxStream :
        call' = [fn |-> "readResponse", pc |-> "loop", size |-> size,
                 timeout |-> timeout, elapsed |-> 0, idx |-> 0, stream |-> stream,
                 written |-> {}, result |-> 0, reads |-> {}]
    /\ UNCHANGED device

\* Variant: the test is written  idx > 32.
BufferFull_Late(idx) == idx > READ_LIMIT

\* if (idx >= 32) break;
BufferFull(idx) == idx >= READ_LIMIT

\* One pass of while (millis() - startTime < timeout): with a byte
\* available, buffer[idx++] = fingerSerial.read() and the break when the
\* buffer is full; the clock may tick during the pass.
ReadPass ==
    /\ InHold("readResponse", "loop") /\ call.elapsed < call.timeout
    /\ \E available \in {a \in BOOLEAN : a => call.stream > 0}, tick \in 0..1 :
        /\ available \/ tick = 1
        /\ call' =
             IF available
             THEN [call EXCEPT
                     !.written = @ \cup {call.idx},
                     !.idx = @ + 1,
                     !.stream = @ - 1,
                     !.elapsed = @ + tick,
                     !.pc = IF BufferFull(call.idx + 1) THEN "done" ELSE "loop",
                     !.result = IF BufferFull(call.idx + 1) THEN call.idx + 1 ELSE @]
             ELSE [call EXCEPT !.elapsed = @ + tick]
    /\ UNCHANGED device

\* The while test fails: return idx;
ReadExpire ==
    /\ InHold("readResponse", "loop") /\ ~(call.elapsed < call.timeout)
    /\ call' = [call EXCEPT !.pc = "done", !.result = call.idx]
    /\ UNCHANGED device

\* The bytes a caller reads after its test  len >= need:  response[9] with
\* 12, response[9..11] with 14 (getTemplateCount), response[9..13] with 16
\* (verifyAndVote).
Needs == {12, 14, 16}
ReadsOf(need) == IF need = 12 THEN {9} ELSE IF need = 14 THEN 9..11 ELSE 9..13

ReadUse ==
    /\ InHold("readResponse", "done")
    /\ \E need \in Needs :
        call' = [call EXCEPT !.pc = "used",
                             !.reads = IF call.result >= need THEN ReadsOf(need)
                                       ELSE {}]
    /\ UNCHANGED device

ReadReturn ==
    /\ InHold("readResponse", "used")
    /\ call' = NoCall
    /\ UNCHANGED device

NextRead == CallReadResponse \/ ReadPass \/ ReadExpire \/ ReadUse \/ ReadReturn

SpecRead == Init /\ [][NextRead]_vars

TypeOK ==
    /\ EEPROM \in [Addrs -> Byte]
    /\ vote1 \in Nat /\ vote2 \in Nat /\ vote3 \in Nat
    /\ sensorDb \subseteq IDs
    /\ mode \in {"boot", "idle", "shown", "halted"}
    /\ roundVotes \in [IDs -> Nat]
    /\ roundFlagged \subseteq IDs
(***************************************************************************)
(* Reading a registry byte as the data model describes it: 0xFF is Empty,  *)
(* otherwise bits 0..6 are the ID and bit 7 is the voted flag.             *)
(***************************************************************************)
Occupied(b) == b # EMPTY
IdOf(b) == b % 128
VotedBit(b) == b \div 128 = 1

Holds(E, i) == \E s \in SlotIdx : Occupied(Slot(E, s)) /\ IdOf(Slot(E, s)) = i
HoldsUnvoted(E, i) ==
    \E s \in SlotIdx : Occupied(Slot(E, s)) /\ IdOf(Slot(E, s)) = i
                       /\ ~VotedBit(Slot(E, s))
IsVoted(E, i) ==
    \E s \in SlotIdx : Occupied(Slot(E, s)) /\ IdOf(Slot(E, s)) = i
                       /\ VotedBit(Slot(E, s))
Full(E) == \A s \in SlotIdx : Occupied(Slot(E, s))
RegistryIds(E) == {IdOf(Slot(E, s)) : s \in {t \in SlotIdx : Occupied(Slot(E, t))}}
SameSlots(E, F) == \A s \in SlotIdx : Slot(E, s) = Slot(F, s)
Tallies(E) == <<E[EEPROM_VOTE1], E[EEPROM_VOTE2], E[EEPROM_VOTE3]>>
Votes == <<vote1, vote2, vote3>>

\* A workflow has just returned (or setup() has ended in the halt loop):
\* last and pre describe it.
Ran(op) == mode \in {"shown", "halted"} /\ last.op = op
Ended(op, outcome) == Ran(op) /\ last.outcome = outcome

(***************************************************************************)
(* C1: an ID the sensor matches has at most one vote recorded between two  *)
(* consecutive tally resets.                                               *)
(***************************************************************************)
C1_OneVotePerRound == \A i \in IDs : roundVotes[i] <= 1

(***************************************************************************)
(* C2: no two occupied registry slots hold the same ID (low 7 bits).       *)
(***************************************************************************)
C2_UniqueIds ==
    \A s, t \in SlotIdx :
        (s # t /\ Occupied(Slot(EEPROM, s)) /\ Occupied(Slot(EEPROM, t)))
            => IdOf(Slot(EEPROM, s)) # IdOf(Slot(EEPROM, t))

(***************************************************************************)
(* C3: an ID that is voted stays voted over every step that is neither a   *)
(* confirmed delete of that ID nor an applied reset_votes.  As stated the  *)
(* claim leaves reset_all out (C3_VotedUntilReleaseOrResetVotes); amended, *)
(* the step is also not a reset_all (C3_VotedUntilReleaseOrReset).         *)
(***************************************************************************)
Released(i) == Ended("delete", "Deleted") /\ last.id = i
VotesReset == Ended("reset_votes", "Applied")
AllReset == Ended("setup", "Reset")

C3_VotedUntilReleaseOrResetVotes ==
    \A i \in IDs :
        (IsVoted(pre.E, i) /\ ~Released(i) /\ ~VotesReset) => IsVoted(EEPROM, i)

C3_VotedUntilReleaseOrReset ==
    \A i \in IDs :
        (IsVoted(pre.E, i) /\ ~Released(i) /\ ~VotesReset /\ ~AllReset)
            => IsVoted(EEPROM, i)

\* A voted ID is still voted after another ID was deleted from the registry.
C3_Witness ==
    \E i \in IDs :
        /\ IsVoted(pre.E, i) /\ IsVoted(EEPROM, i)
        /\ Ended("delete", "Deleted") /\ last.id # i /\ ~SameSlots(pre.E, EEPROM)

(***************************************************************************)
(* C4: with every registry slot occupied, an enrollment changes no slot    *)
(* and does not end in the success outcome.                                *)
(***************************************************************************)
C4_FullAllocateFails ==
    (Ran("enroll") /\ Full(pre.E))
        => (SameSlots(pre.E, EEPROM) /\ last.outcome # "Success")

(***************************************************************************)
(* C5: whenever no workflow is in progress, the IDs held by registry slots *)
(* are exactly the IDs that have a model stored on the sensor.             *)
(***************************************************************************)
C5_RegistryMatchesSensor ==
    mode = "idle" => RegistryIds(EEPROM) = sensorDb

(***************************************************************************)
(* C6: a recorded vote of an ID that held a slot with the voted bit clear  *)
(* raises exactly the tally of the recorded candidate by one, in memory    *)
(* and in the EEPROM, leaves the other two tallies alone, and turns one    *)
(* slot from Enrolled(id, false) into Enrolled(id, true), every other slot *)
(* unchanged; the recorded candidate is one of the buttons pressed.        *)
(***************************************************************************)
C6_VoteCountsOnce ==
    (Ended("vote", "Recorded") /\ HoldsUnvoted(pre.E, last.id)) =>
        /\ last.cand \in 1..3
        /\ \A c \in 1..3 :
            /\ Votes[c] = pre.v[c] + (IF c = last.cand THEN 1 ELSE 0)
            /\ Tallies(EEPROM)[c] =
                 IF c = last.cand THEN Votes[c] ELSE Tallies(pre.E)[c]
        /\ \E s \in SlotIdx :
            /\ Slot(pre.E, s) = last.id
            /\ Slot(EEPROM, s) = last.id + 128
            /\ \A t \in SlotIdx \ {s} : Slot(EEPROM, t) = Slot(pre.E, t)
        /\ \A pressed \in SUBSET {1, 2, 3} \ {{}} :
            castVote(pre.E, pre.v, last.id, pressed).cand \in pressed

C6_Witness ==
    /\ Ended("vote", "Recorded") /\ HoldsUnvoted(pre.E, last.id)
    /\ IsVoted(EEPROM, last.id)
    /\ last.cand = 2 /\ vote2 = 1

(***************************************************************************)
(* C7: a verify-and-vote whose search matches an ID that has a voted slot  *)
(* ends Rejected ("Already Voted!"), castVote is not entered, and the      *)
(* tallies and every registry slot are unchanged.                          *)
(***************************************************************************)
C7_AlreadyVotedRejected ==
    (Ran("vote") /\ last.id # 0 /\ IsVoted(pre.E, last.id)) =>
        /\ last.outcome = "AlreadyVoted"
        /\ last.cand = 0
        /\ EEPROM = pre.E
        /\ Votes = pre.v

C7_Witness ==
    /\ Ended("vote", "AlreadyVoted")
    /\ IsVoted(pre.E, last.id)
    /\ vote1 + vote2 + vote3 > 0

(***************************************************************************)
(* C8: reset_votes zeroes the three tallies, persisted and in memory, and  *)
(* clears the voted bit of every occupied slot; an occupied slot keeps its *)
(* ID and an Empty slot stays Empty.                                       *)
(***************************************************************************)
C8_ResetVotesScope ==
    VotesReset =>
        /\ Votes = <<0, 0, 0>>
        /\ Tallies(EEPROM) = <<0, 0, 0>>
        /\ \A s \in SlotIdx :
            IF Occupied(Slot(pre.E, s))
            THEN /\ Occupied(Slot(EEPROM, s))
                 /\ IdOf(Slot(EEPROM, s)) = IdOf(Slot(pre.E, s))
                 /\ ~VotedBit(Slot(EEPROM, s))
            ELSE ~Occupied(Slot(EEPROM, s))

C8_Witness ==
    /\ VotesReset
    /\ pre.v # <<0, 0, 0>>
    /\ \E s, t \in SlotIdx :
        /\ Occupied(Slot(pre.E, s)) /\ VotedBit(Slot(pre.E, s))
        /\ ~Occupied(Slot(pre.E, t))

(***************************************************************************)
(* C9: after reset_all every registry slot is Empty and the three tallies, *)
(* persisted and in memory, are zero, whatever the state before.           *)
(***************************************************************************)
C9_ResetAllClears ==
    AllReset =>
        /\ \A s \in SlotIdx : Slot(EEPROM, s) = EMPTY
        /\ Tallies(EEPROM) = <<0, 0, 0>>
        /\ Votes = <<0, 0, 0>>

C9_Witness ==
    /\ AllReset
    /\ \E s \in SlotIdx : Occupied(Slot(pre.E, s)) /\ VotedBit(Slot(pre.E, s))
    /\ \E c \in 1..3 : Tallies(pre.E)[c] = 1

(***************************************************************************)
(* C10: after a delete of ID i that the sensor confirms, no registry slot  *)
(* holds i.                                                                *)
(***************************************************************************)
C10_DeletedIdGone ==
    Ended("delete", "Deleted") => ~Holds(EEPROM, last.id)

(***************************************************************************)
(* C11: a delete the sensor does not confirm (a non-zero confirmation code *)
(* or fewer than 12 bytes received) ends "Delete failed!" and leaves every *)
(* registry slot and every tally, persisted and in memory, unchanged.      *)
(***************************************************************************)
C11_UnconfirmedDeleteChangesNothing ==
    (Ran("delete") /\ last.id # 0) =>
        /\ last.outcome = "DeleteFailed" => (EEPROM = pre.E /\ Votes = pre.v)
        /\ \A r \in Resp :
            ~(r.len >= 12 /\ r.code = 0) =>
                LET d == deleteByID(pre.E, pre.db, last.id, FALSE, r)
                IN  d.outcome = "DeleteFailed" /\ d.E = pre.E

C11_Witness ==
    /\ Ended("delete", "DeleteFailed")
    /\ IsVoted(pre.E, last.id)
    /\ pre.v # <<0, 0, 0>>
    /\ EEPROM = pre.E

(***************************************************************************)
(* C12: the three tallies sum to at most the number of distinct IDs whose  *)
(* voted flag a vote has set since the tallies were last zeroed.           *)
(***************************************************************************)
C12_TalliesBoundedByVoters ==
    mode \in {"idle", "shown"} =>
        vote1 + vote2 + vote3 <= Cardinality(roundFlagged)

(***************************************************************************)
(* C13: each of the three tallies, the in-memory counter and the EEPROM    *)
(* byte, is in 0..255 in every reachable state.                            *)
(***************************************************************************)
C13_TalliesFitByte ==
    \A c \in 1..3 : Votes[c] \in 0..255 /\ Tallies(EEPROM)[c] \in 0..255

(***************************************************************************)
(* C14: after a restart without the startup reset each in-memory tally is  *)
(* what it was when the power was lost and every registry slot is as it    *)
(* was.                                                                    *)
(***************************************************************************)
C14_PowerCyclePreservesVotes ==
    (Ended("setup", "NoReset") /\ mode = "shown")
        => (Votes = pre.v /\ SameSlots(pre.E, EEPROM))

(***************************************************************************)
(* C15: waitForFinger(timeoutSeconds) that never reads a complete response *)
(* with confirmation 0x00 sends exactly 10 * timeoutSeconds GET_IMAGE      *)
(* commands and returns false, whatever the responses are; it never sends  *)
(* more than that.                                                         *)
(***************************************************************************)
C15_WaitForFingerBounded ==
    call.fn = "waitForFinger" =>
        /\ call.polls <= 10 * call.timeoutSeconds
        /\ (call.pc = "done" /\ "image" \notin call.seen) =>
              (call.result = FALSE /\ call.polls = 10 * call.timeoutSeconds)
        /\ (call.pc = "loop" /\ "image" \notin call.seen) =>
              call.polls + call.timeout = 10 * call.timeoutSeconds

C15_Witness ==
    /\ call.fn = "waitForFinger" /\ call.pc = "done"
    /\ call.timeoutSeconds = 1 /\ call.polls = 10 /\ call.result = FALSE
    /\ call.seen = {"incomplete", "nofinger", "other"}

(***************************************************************************)
(* C16: the checksum stored in the packet.  As stated, it is the 16-bit    *)
(* sum of the two length bytes, the command byte and the payload bytes,    *)
(* the packet-type byte left out (C16_ChecksumWithoutType); amended, the   *)
(* packet-type byte is part of the sum (C16_ChecksumWithType).  In both    *)
(* the two checksum bytes are no part of the sum.  The bytes are read off  *)
(* the values sendCommand stored: type at 7, length at 8..9, command at    *)
(* 10, payload up to idx - 2, checksum in the last two.                    *)
(***************************************************************************)
StoredChecksum == call.written[call.idx - 1] * 256 + call.written[call.idx]

C16_ChecksumWithoutType ==
    call.fn = "sendCommand" =>
        StoredChecksum = SumRange(call.written, 8, call.idx - 2) % 65536

C16_ChecksumWithType ==
    call.fn = "sendCommand" =>
        /\ StoredChecksum = SumRange(call.written, 7, call.idx - 2) % 65536
        /\ call.written[call.idx - 1] \in Byte /\ call.written[call.idx] \in Byte

C16_Witness ==
    /\ call.fn = "sendCommand"
    /\ Len(call.data) = 2
    /\ StoredChecksum > 255
    /\ StoredChecksum = 1 + 0 + 5 + call.cmd + call.data[1] + call.data[2]

StoreIndexes == 0..(call.idx - 1)

C18_FitsUpTo118 ==
    (call.fn = "sendCommand" /\ Len(call.data) \in 0..118) =>
        \A k \in StoreIndexes : k \in 0..127

C18_FitsUpTo116 ==
    (call.fn = "sendCommand" /\ Len(call.data) \in 0..116) =>
        \A k \in StoreIndexes : k \in 0..127

C18_Witness ==
    /\ call.fn = "sendCommand"
    /\ Len(call.data) = 116
    /\ 127 \in StoreIndexes

(***************************************************************************)
(* C19: with a finger captured and its features extracted, verifyAndVote   *)
(* goes on to the already-voted check iff the search response has at least *)
(* 16 bytes and confirmation code 0x00; otherwise it ends "Not Authorized" *)
(* and the registry and the tallies are unchanged.                         *)
(***************************************************************************)
C19_SearchMatchRule ==
    (Ran("vote") /\ last.outcome \notin {"Timeout", "ScanError"}) =>
        /\ last.outcome = "NotAuthorized" => (EEPROM = pre.E /\ Votes = pre.v)
        /\ \A r \in SearchResp, m \in IDs, pressed \in SUBSET {1, 2, 3} :
            LET x == verifyAndVote(pre.E, pre.v, TRUE, [len |-> 12, code |-> 0],
                                   r, m, pressed)
            IN  IF r.len >= 16 /\ r.code = 0
                THEN /\ x.outcome \in {"AlreadyVoted", "Recorded", "VoteTimeout"}
                     /\ x.outcome = "AlreadyVoted" <=> IsVoted(pre.E, m)
                ELSE /\ x.outcome = "NotAuthorized"
                     /\ x.E = pre.E /\ x.v = pre.v

C19_Witness ==
    /\ Ended("vote", "NotAuthorized")
    /\ sensorDb # {}
    /\ \E i \in IDs : IsVoted(pre.E, i)
    /\ EEPROM = pre.E /\ Votes = pre.v /\ pre.v # <<0, 0, 0>>

(***************************************************************************)
(* C20: verifyPassword, checkFinger, imageToTemplate, createModel,         *)
(* storeModel and the DELETE_MODEL exchange of deleteByID succeed iff at   *)
(* least 12 response bytes were read and the byte at offset 9 is 0x00; a   *)
(* shorter response and every non-zero code, 0x06 and 0x07 included, is a  *)
(* failure.                                                                *)
(***************************************************************************)
C20_SuccessRule ==
    call.fn \in Primitives =>
        (call.result <=> (call.resp.len >= 12 /\ call.resp.code = 0))

C20_Witness ==
    /\ call.fn = "imageToTemplate"
    /\ call.resp = [len |-> 12, code |-> 7]
    /\ call.result = FALSE

(***************************************************************************)
(* C21: a setup() in which all six verifyPassword() calls fail ends in the *)
(* halt loop, and the only step out of the halt loop is the power being    *)
(* cycled: no workflow runs, the EEPROM (registry and tallies) and the     *)
(* sensor library stay as they are.                                        *)
(***************************************************************************)
C21_HaltedForGood ==
    [][/\ (mode' \in {"shown", "halted"} /\ last'.op = "setup" /\ last'.failed = 6)
            => mode' = "halted"
       /\ mode = "halted"
            => (mode' = "boot" /\ last'.op = "menu"
                /\ EEPROM' = EEPROM /\ sensorDb' = sensorDb)]_vars

C21_Witness ==
    /\ mode = "halted" /\ last.op = "setup" /\ last.failed = 6
    /\ sensorDb # {}
    /\ \E i \in IDs : HoldsUnvoted(EEPROM, i)

(***************************************************************************)
(* C22: the EEPROM writes of castVote, carried out one after the other,    *)
(* give what castVote gives, and wherever the power is lost among them, an *)
(* ID whose voted flag this vote has set has the incremented tally of the  *)
(* chosen candidate in the EEPROM as well.                                 *)
(***************************************************************************)
VoteBegun == last.op = "vote" /\ last.outcome \in {"Recorded", "PowerLost"}

TallyAddr(c) == <<EEPROM_VOTE1, EEPROM_VOTE2, EEPROM_VOTE3>>[c]

TallyPersisted ==
    /\ EEPROM[TallyAddr(last.cand)] = (pre.v[last.cand] + 1) % 256
    /\ EEPROM[TallyAddr(last.cand)] # pre.E[TallyAddr(last.cand)]

C22_TallyBeforeFlag ==
    /\ (VoteBegun /\ IsVoted(EEPROM, last.id) /\ ~IsVoted(pre.E, last.id))
            => TallyPersisted
    /\ Ended("vote", "Recorded")
            => LET ws == castVoteWrites(pre.E, pre.v, last.id, {last.cand})
               IN  EEPROM = Written(pre.E, ws, Len(ws))

\* The power was lost with the tally written and the flag still clear.
C22_Witness ==
    /\ mode = "boot" /\ last.op = "vote" /\ last.outcome = "PowerLost"
    /\ TallyPersisted
    /\ HoldsUnvoted(pre.E, last.id) /\ HoldsUnvoted(EEPROM, last.id)

(***************************************************************************)
(* C24: in a run of enrollFingerprint, STORE_MODEL is sent only after      *)
(* CREATE_MODEL was answered with success, a registry slot is written only *)
(* after both were, and after a failed CREATE_MODEL neither the registry   *)
(* nor the sensor library changes.                                         *)
(***************************************************************************)
Answered(q) == q # <<>>
Success(q) == q # <<>> /\ q[1].len >= 12 /\ q[1].code = 0

C24_SlotOnlyAfterMergeAndStore ==
    call.fn = "enrollFingerprint" =>
        /\ Answered(call.stores) => Success(call.merges)
        /\ EEPROM # pre.E => (Success(call.merges) /\ Success(call.stores))
        /\ (Answered(call.merges) /\ ~Success(call.merges))
                => (EEPROM = pre.E /\ sensorDb = pre.db /\ ~Answered(call.stores))

\* The templates merged but STORE_MODEL was not confirmed: the run ends
\* with the registry as it was.
C24_Witness ==
    /\ InEnroll("done") /\ call.outcome = "StoreFailed"
    /\ Success(call.merges)
    /\ Answered(call.stores) /\ ~Success(call.stores)
    /\ EEPROM = pre.E

(***************************************************************************)
(* C25: every run of enrollFingerprint in which an ID was confirmed comes  *)
(* to its return, whatever the sensor answers.                             *)
(***************************************************************************)
C25_EnrollReturns ==
    (call.fn = "enrollFingerprint") ~> InEnroll("done")

(***************************************************************************)
(* C29: in each capture phase imageToTemplate is called at most 3 times,   *)
(* and once it has failed 3 times in a phase the run sends no              *)
(* CREATE_MODEL and no STORE_MODEL, writes no registry slot, and can only  *)
(* return with "Failed!".                                                  *)
(***************************************************************************)
C29_ThreeExtractionsPerPhase ==
    call.fn = "enrollFingerprint" =>
        /\ call.extracts <= 3
        /\ call.failures >= 3 =>
            /\ ~Answered(call.merges) /\ ~Answered(call.stores)
            /\ EEPROM = pre.E /\ sensorDb = pre.db
            /\ call.pc \in {"lift", "liftDelay", "capture", "done"}
            /\ call.pc = "done" => call.outcome = "Failed"

\* The second phase has failed three times, after a removal wait in which
\* the finger was still seen at first.
C29_Witness ==
    /\ InEnroll("done") /\ call.outcome = "Failed"
    /\ call.phase = 2 /\ call.failures = 3 /\ call.extracts = 3
    /\ call.present > 0

(***************************************************************************)
(* C30: the second capture loop is entered only after a checkFinger of the *)
(* removal loop has returned false, and once 50 probes of that loop have   *)
(* reported a finger the run stays out of the second capture, sends no     *)
(* CREATE_MODEL or STORE_MODEL, leaves the registry and the sensor library *)
(* as they were and can only return with "Remove finger!".                 *)
(***************************************************************************)
C30_SecondCaptureAfterLift ==
    call.fn = "enrollFingerprint" =>
        /\ call.phase = 2 => call.lifted
        /\ call.present >= 50 =>
            /\ call.phase = 1 /\ call.pc \in {"remove", "done"}
            /\ call.pc = "done" => call.outcome = "RemoveFinger"
            /\ ~Answered(call.merges) /\ ~Answered(call.stores)
            /\ EEPROM = pre.E /\ sensorDb = pre.db

\* Fifty probes reported the finger and the run has ended "Remove finger!"
\* on a device that already has an enrolled ID.
C30_Witness ==
    /\ InEnroll("done") /\ call.outcome = "RemoveFinger"
    /\ call.present >= 50
    /\ \E i \in IDs : Holds(EEPROM, i)

(***************************************************************************)
(* C26: a run of verifyAndVote calls waitForFinger once, which makes at    *)
(* most 150 GET_IMAGE polls, and makes one IMAGE_TO_TZ exchange, one       *)
(* SEARCH exchange and one call of castVote whose loop stays within        *)
(* 15000 ms; it returns only recorded, rejected or timed out, and every    *)
(* run comes back to the main menu.                                        *)
(***************************************************************************)
VoteOutcomes ==
    {"Recorded", "ScanError", "AlreadyVoted", "NotAuthorized", "Timeout",
     "VoteTimeout"}

C26_VoteRunBounded ==
    call.fn = "verifyAndVote" =>
        /\ call.waits <= 1 /\ call.polls <= 150
        /\ call.extracts <= 1 /\ call.searches <= 1
        /\ call.windows <= 1 /\ call.elapsed <= 15000
        /\ call.pc = "done" => call.outcome \in VoteOutcomes

C27_ButtonsAfterEligibility ==
    call.fn = "verifyAndVote" =>
        /\ call.reads > 0 =>
            /\ call.searches = 1 /\ call.matchID # 0
            /\ ~IsVoted(pre.E, call.matchID)
        /\ call.reads = 0 => (Votes = pre.v /\ EEPROM = pre.E)

\* A candidate button was down before the run ended "Already Voted!".
C27_Witness ==
    /\ InVote("done") /\ call.outcome = "AlreadyVoted"
    /\ call.early /\ call.reads = 0
    /\ Votes = pre.v /\ EEPROM = pre.E

(***************************************************************************)
(* C28: a run that ends "Vote Timeout" has read the buttons through the    *)
(* whole window, leaves the three tallies and every EEPROM byte as they    *)
(* were, and the matched ID is not voted: a later run that matches it and  *)
(* finds a candidate button pressed records a vote.                        *)
(***************************************************************************)
C28_TimeoutCancelsVote ==
    (InVote("done") /\ call.outcome = "VoteTimeout") =>
        /\ call.reads = 300
        /\ Votes = pre.v /\ EEPROM = pre.E
        /\ ~IsVoted(EEPROM, call.matchID)
        /\ \A c \in 1..3 :
            verifyAndVote(EEPROM, Votes, TRUE, [len |-> 12, code |-> 0],
                          [len |-> 16, code |-> 0], call.matchID, {c}).outcome
                = "Recorded"

\* The window ran out for an ID that holds a registry slot.
C28_Witness ==
    /\ InVote("done") /\ call.outcome = "VoteTimeout"
    /\ HoldsUnvoted(EEPROM, call.matchID)
    /\ call.early

(***************************************************************************)
(* C23: whenever a vote is recorded for the matched ID, a registry slot    *)
(* held that ID with the voted bit clear when the run started, so that     *)
(* markAsVoted finds a slot to flag.                                       *)
(***************************************************************************)
C23_RecordedVoteHasSlot ==
    Ended("vote", "Recorded") => HoldsUnvoted(pre.E, last.id)

(***************************************************************************)
(* C31: a complete GET_IMAGE response whose code is neither 0x00 nor 0x02. *)
(* As stated, waitForFinger then returns false, even if a later poll is    *)
(* answered 0x00 (C31_OtherCodeFails); amended, the poll counts against    *)
(* the timeout like any other and the loop goes on: waitForFinger returns  *)
(* true only after a poll answered 0x00 and false only with the timeout    *)
(* used up (C31_OtherCodeRetried).                                         *)
(***************************************************************************)
C31_OtherCodeFails ==
    (call.fn = "waitForFinger" /\ call.pc = "done" /\ "other" \in call.seen)
        => call.result = FALSE

C31_OtherCodeRetried ==
    (call.fn = "waitForFinger" /\ "other" \in call.seen) =>
        /\ call.pc = "loop" =>
            /\ call.polls + call.timeout = 10 * call.timeoutSeconds
            /\ call.timeout > 0 =>
                \A r \in PollResp :
                    (r.len >= 12 /\ r.code \notin {0, 2}) =>
                        waitForFingerPass(call.timeout, r)
                            = [timeout |-> call.timeout - 1, returned |-> FALSE]
        /\ (call.pc = "done" /\ call.result) => "image" \in call.seen
        /\ (call.pc = "done" /\ ~call.result) =>
              (call.timeout = 0 /\ call.polls = 10 * call.timeoutSeconds)

\* waitForFinger has returned true after a poll answered with another code.
C31_Witness ==
    /\ call.fn = "waitForFinger" /\ call.pc = "done" /\ call.result
    /\ "other" \in call.seen /\ call.polls > 1

(***************************************************************************)
(* C32: a button pressed while waitForFinger is polling.  As stated, the   *)
(* loop is left once the press has been seen between two polls            *)
(* (C32_ButtonAbandonsCapture); amended, the loop reads no button: it goes *)
(* on and ends only with a poll answered 0x00 or with the timeout used up  *)
(* (C32_ButtonDoesNotAbandon).                                             *)
(***************************************************************************)
C32_ButtonAbandonsCapture ==
    (call.fn = "waitForFinger" /\ call.pressed) => call.pc = "done"

C32_ButtonDoesNotAbandon ==
    (call.fn = "waitForFinger" /\ call.pressed) =>
        /\ call.pc = "loop" => call.polls + call.timeout = 10 * call.timeoutSeconds
        /\ call.pc = "done" =>
            \/ call.result /\ "image" \in call.seen
            \/ /\ ~call.result /\ call.timeout = 0
               /\ call.polls = 10 * call.timeoutSeconds

\* A button was pressed and the wait still ran to its last poll.
C32_Witness ==
    /\ call.fn = "waitForFinger" /\ call.pc = "done" /\ call.pressed
    /\ ~call.result /\ call.timeoutSeconds = 15 /\ call.polls = 150

(***************************************************************************)
(* C33: resetVotesOnly runs only after RESET_VOTES read LOW at every       *)
(* sample of the full 3000 ms, resetSystem only after RESULTS read LOW at  *)
(* all 20 startup samples; after a sample that read HIGH the reset is not  *)
(* applied ("Cancelled" for the vote reset) and no EEPROM byte, registry   *)
(* slot or tally, has changed, nor has a tally in memory in loop().        *)
(***************************************************************************)
C33_ResetNeedsFullHold ==
    /\ InHold("voteHold", "done") =>
        /\ last.op = "reset_votes"
        /\ last.outcome = "Applied"
              <=> (~call.released /\ call.elapsed = 3000 /\ call.lows * 50 = 3000)
        /\ call.released =>
              (last.outcome = "Cancelled" /\ EEPROM = pre.E /\ Votes = pre.v)
    /\ InHold("startupHold", "done") =>
        /\ last.op = "setup"
        /\ last.outcome = "Reset" <=> (~call.released /\ call.lows = 20)
        /\ call.released => (last.outcome = "NoReset" /\ EEPROM = pre.E)

\* RESET_VOTES was let go at the last sample of the window, on a device
\* that has a recorded vote.
C33_Witness ==
    /\ InHold("voteHold", "done") /\ call.released
    /\ call.elapsed = 2950
    /\ last.outcome = "Cancelled"
    /\ vote1 + vote2 + vote3 > 0 /\ \E i \in IDs : IsVoted(EEPROM, i)

(***************************************************************************)
(* C34: every registry slot is 0xFF or holds an ID whose low 7 bits are in *)
(* 1..MAX_FINGERPRINTS, and the id of the enroll and delete selection      *)
(* loops is in 1..MAX_FINGERPRINTS after any passes with UP and DOWN.      *)
(***************************************************************************)
C34_IdsInRange ==
    /\ \A s \in SlotIdx :
          Slot(EEPROM, s) = EMPTY \/ IdOf(Slot(EEPROM, s)) \in 1..MAX_FINGERPRINTS
    /\ call.fn = "selectId" => call.id \in 1..MAX_FINGERPRINTS

\* The selection has wrapped both ways and a slot holds a flagged ID.
C34_Witness ==
    /\ call.fn = "selectId" /\ call.ups /\ call.downs
    /\ call.id = MAX_FINGERPRINTS
    /\ \E i \in IDs : IsVoted(EEPROM, i)

(***************************************************************************)
(* C35: an enrollment of ID i that ends in "Success" while a slot reads    *)
(* 0xFF writes i, bit 7 clear, into the lowest such slot and leaves every  *)
(* other slot as it was; a slot that a deletion has emptied is the lowest  *)
(* one again when it lies below the other empty slots.                     *)
(***************************************************************************)
C35_EnrollFillsLowestEmpty ==
    (Ended("enroll", "Success") /\ ~Full(pre.E)) =>
        LET k == Min({s \in SlotIdx : ~Occupied(Slot(pre.E, s))})
        IN  /\ Slot(EEPROM, k) = last.id
            /\ last.id \in IDs
            /\ \A s \in SlotIdx \ {k} : Slot(EEPROM, s) = Slot(pre.E, s)

\* Slot 0 was empty below an occupied slot, as a deletion leaves it, and
\* the enrollment has filled it.
C35_Witness ==
    /\ Ended("enroll", "Success")
    /\ ~Occupied(Slot(pre.E, 0)) /\ Occupied(Slot(pre.E, 1))
    /\ Slot(EEPROM, 0) = last.id /\ Slot(EEPROM, 1) = Slot(pre.E, 1)

(***************************************************************************)
(* C36: a slot that was occupied before the last workflow is still         *)
(* occupied and has the same low 7 bits, unless the workflow was a         *)
(* confirmed delete of the ID in the slot or a reset_all.                  *)
(***************************************************************************)
C36_IdBitsKept ==
    \A s \in SlotIdx :
        (Occupied(Slot(pre.E, s)) /\ ~Released(IdOf(Slot(pre.E, s))) /\ ~AllReset)
            => /\ Occupied(Slot(EEPROM, s))
               /\ IdOf(Slot(EEPROM, s)) = IdOf(Slot(pre.E, s))

\* A vote has flagged the ID of one slot beside another occupied slot.
C36_Witness ==
    /\ Ended("vote", "Recorded")
    /\ \E s, t \in SlotIdx :
        /\ s # t /\ Occupied(Slot(pre.E, t)) /\ Slot(EEPROM, t) = Slot(pre.E, t)
        /\ Occupied(Slot(pre.E, s)) /\ ~VotedBit(Slot(pre.E, s))
        /\ VotedBit(Slot(EEPROM, s)) /\ IdOf(Slot(EEPROM, s)) = last.id

\* The persisted tallies of a device whose tallies in memory are v: a byte
\* never written since the EEPROM was fresh reads 0xFF and stands for 0.
Stored(E, v) ==
    [c \in 1..3 |-> IF Tallies(E)[c] = 255 /\ v[c] = 0 THEN 0 ELSE Tallies(E)[c]]

\* Tallies t against tallies u: the same but for candidate c, one higher.
OneMore(t, u, c) == \A k \in 1..3 : t[k] = IF k = c THEN u[k] + 1 ELSE u[k]

\* Enrollment and deletion, however they end, leave the tallies alone.
C37_EnrollDeleteKeepTallies ==
    (Ran("enroll") \/ Ran("delete")) =>
        (Votes = pre.v /\ Tallies(EEPROM) = Tallies(pre.E))

(***************************************************************************)
(* C37: a tally, in memory or persisted, changes only by +1 in a recorded  *)
(* vote or to zero in reset_votes or reset_all: an enrollment, a deletion, *)
(* a vote that is not recorded, a cancelled reset and a restart without    *)
(* the startup reset leave the three tallies as they were.                 *)
(***************************************************************************)
C37_TalliesChangeByVoteOrReset ==
    /\ C37_EnrollDeleteKeepTallies
    /\ Ended("vote", "Recorded") =>
          /\ last.cand \in 1..3
          /\ OneMore(Votes, pre.v, last.cand)
          /\ OneMore(Stored(EEPROM, Votes), Stored(pre.E, pre.v), last.cand)
    /\ (Ran("vote") /\ last.outcome # "Recorded") =>
          (Votes = pre.v /\ Tallies(EEPROM) = Tallies(pre.E))
    /\ (VotesReset \/ AllReset) =>
          (Votes = <<0, 0, 0>> /\ Tallies(EEPROM) = <<0, 0, 0>>)
    /\ (Ended("reset_votes", "Cancelled") \/ Ended("setup", "NoReset")) =>
          (Votes = pre.v /\ Tallies(EEPROM) = Tallies(pre.E))

(***************************************************************************)
(* C38: readResponse stores no byte at index 32 or beyond and returns a    *)
(* count in 0..32, the number of bytes it stored, for every stream and     *)
(* every timeout; a caller whose test of the count against 12, 14 or 16    *)
(* succeeds reads only buffer bytes that were received.                    *)
(***************************************************************************)
C38_ReadWithinBuffer ==
    call.fn = "readResponse" =>
        /\ call.written \subseteq 0..(READ_LIMIT - 1)
        /\ call.written \subseteq 0..(call.size - 1)
        /\ call.idx \in 0..READ_LIMIT
        /\ call.pc \in {"done", "used"} =>
              (call.result \in 0..READ_LIMIT /\ call.written = 0..(call.result - 1))
        /\ call.reads \subseteq call.written

\* A stream longer than the buffer was cut at 32 bytes and the caller of
\* the search has read the five bytes behind its test.
C38_Witness ==
    /\ InHold("readResponse", "used")
    /\ call.result = 32 /\ call.stream > 0 /\ call.size = 32
    /\ call.reads = 9..13
====
